---- MODULE Spec2Model ----
(***************************************************************************)
(* Match lifecycle, write-first consensus and atomic settlement of the     *)
(* block-server economy backend (go/items/match_result.go and the commit   *)
(* engine in go/errors/errors.go), over an object store with optimistic    *)
(* versions and a wallet ledger.                                           *)
(***************************************************************************)
EXTENDS Integers, Sequences, FiniteSets, TLC

VARIABLES
    now,        \* wall clock, milliseconds (time.Now().UnixMilli())
    ticks,      \* number of clock advances so far
    storage,    \* object store: <<collection, key, owner>> -> [value, version]
    wallet,     \* ledger: player -> currency -> balance
    pc,         \* per player: position of the in-flight submit-match-result call
    sub,        \* per player: locals and record of the in-flight / last submission
    resp,       \* per player: what the last finished call returned
    first,      \* per player and match: response of the first successful submission
    calls,      \* per player: number of calls started
    batch       \* commit engine harness: the batch handed to CommitPendingWrites and its outcome

vars == <<now, ticks, storage, wallet, pc, sub, resp, first, calls, batch>>

----------------------------------------------------------------------------
(* Bounds of the model *)

MaxTicks == 2           \* clock advances per behaviour
MaxCalls == 4           \* calls a player starts per behaviour
MaxBatchWrites == 2     \* object-store writes in a harness batch
MaxBatchDeltas == 2     \* ledger updates in a harness batch
MaxRoundList == 2       \* rounds in an enumerated round list
ClaimedWins == 50       \* wins claimed by an inflated request

Players == {"A", "B"}
MatchIDs == {"m1", "m2"}
Scores == {7}
TickSteps == {15000, 600000}

(* Program constants *)

minMatchDurationMs == 10000
minRateLimitMs == 15000
maxMatchDurationMs == 600000

storageCollectionMatchHistory == "match_history"
storageKeyLastMatch == "last_match"
storageCollectionActiveMatch == "active_match"
storageKeyCurrentMatch == "current"
storageCollectionResults == "match_results"
storageCollectionDrops == "drops"
storageKeyDailyMatches == "daily_matches"
storageCollectionProgression == "progression"
storageCollectionLootboxes == "lootboxes"
walletKeyDropsLeft == "dropsLeft"
walletKeyRoundTokens == "roundTokens"
Currencies == {walletKeyDropsLeft, walletKeyRoundTokens}

----------------------------------------------------------------------------
(* Object store: read by key, write with optional version, delete *)

EmptyVersion == <<>>

\* The store's version of an object is a digest of its value.
VersionOf(value) == <<value>>

\* nk.StorageRead of one key: the list of objects found (empty or one).
StorageRead(st, key) ==
    IF key \in DOMAIN st THEN <<st[key]>> ELSE <<>>

\* A write with an empty version is unconditional; otherwise the stored
\* object must exist and carry that version.
WriteAccepted(st, w) ==
    \/ w.version = EmptyVersion
    \/ /\ w.key \in DOMAIN st
       /\ st[w.key].version = w.version

ApplyWrite(st, w) ==
    [k \in DOMAIN st \cup {w.key} |->
        IF k = w.key THEN [value |-> w.value, version |-> VersionOf(w.value)]
        ELSE st[k]]

StorageDelete(st, key) ==
    [k \in DOMAIN st \ {key} |-> st[k]]

(* Ledger: signed deltas per currency; a balance may not go negative *)

ApplyChangeset(bal, changeset) ==
    [c \in DOMAIN bal |->
        bal[c] + (IF c \in DOMAIN changeset THEN changeset[c] ELSE 0)]

\* A ledger that lets a balance go below zero.
ChangesetAcceptedBelowZero(bal, changeset) ==
    \A c \in DOMAIN changeset : c \in DOMAIN bal

ChangesetAccepted(bal, changeset) ==
    \A c \in DOMAIN changeset : c \in DOMAIN bal /\ bal[c] + changeset[c] >= 0

RECURSIVE ApplyWrites(_, _)
\* All writes in order; [ok, st]. Stops at the first rejected write.
ApplyWrites(st, writes) ==
    IF writes = <<>> THEN [ok |-> TRUE, st |-> st]
    ELSE IF ~WriteAccepted(st, Head(writes)) THEN [ok |-> FALSE, st |-> st]
    ELSE ApplyWrites(ApplyWrite(st, Head(writes)), Tail(writes))

RECURSIVE ApplyWalletUpdates(_, _)
ApplyWalletUpdates(wal, updates) ==
    IF updates = <<>> THEN [ok |-> TRUE, wal |-> wal]
    ELSE LET u == Head(updates) IN
         IF ~ChangesetAccepted(wal[u.user], u.changeset) THEN [ok |-> FALSE, wal |-> wal]
         ELSE ApplyWalletUpdates(
                [wal EXCEPT ![u.user] = ApplyChangeset(wal[u.user], u.changeset)],
                Tail(updates))

\* nk.MultiUpdate: one transaction over object writes and ledger updates.
\* Either all of them land or the stores are left as they were.
MultiUpdate(st, wal, writes, updates, infraFails) ==
    LET w == ApplyWrites(st, writes)
        l == ApplyWalletUpdates(wal, updates)
    IN  IF ~infraFails /\ w.ok /\ l.ok
        THEN [err |-> FALSE, st |-> w.st, wal |-> l.wal]
        ELSE [err |-> TRUE, st |-> st, wal |-> wal]

----------------------------------------------------------------------------
(* PendingWrites: the batch accumulator *)

NewPendingWrites == [StorageWrites |-> <<>>, WalletUpdates |-> <<>>]

AddStorageWrite(pw, write) ==
    [pw EXCEPT !.StorageWrites = Append(@, write)]

AddWalletUpdate(pw, userID, changeset) ==
    [pw EXCEPT !.WalletUpdates = Append(@, [user |-> userID, changeset |-> changeset])]

\* A merge that takes over the object writes only.
MergeWritesOnly(pw, other) ==
    [StorageWrites |-> pw.StorageWrites \o other.StorageWrites,
     WalletUpdates |-> pw.WalletUpdates]

\* Merge: the other batch's writes and ledger updates are appended to this
\* one's. A nil batch is the empty batch here.
Merge(pw, other) ==
    [StorageWrites |-> pw.StorageWrites \o other.StorageWrites,
     WalletUpdates |-> pw.WalletUpdates \o other.WalletUpdates]

IsEmpty(pw) ==
    Len(pw.StorageWrites) = 0 /\ Len(pw.WalletUpdates) = 0

\* A commit that sends the object writes and the ledger updates as two calls.
CommitInTwoCalls(st, wal, pending, infraFails) ==
    IF IsEmpty(pending) THEN [err |-> FALSE, st |-> st, wal |-> wal]
    ELSE LET a == MultiUpdate(st, wal, pending.StorageWrites, <<>>, infraFails)
             b == MultiUpdate(a.st, a.wal, <<>>, pending.WalletUpdates, infraFails)
         IN  [err |-> a.err \/ b.err, st |-> b.st, wal |-> b.wal]

\* CommitPendingWrites: an empty batch succeeds at once; otherwise the whole
\* batch goes to the store as one MultiUpdate.
CommitPendingWrites(st, wal, pending, infraFails) ==
    IF IsEmpty(pending) THEN [err |-> FALSE, st |-> st, wal |-> wal]
    ELSE MultiUpdate(st, wal, pending.StorageWrites, pending.WalletUpdates, infraFails)

----------------------------------------------------------------------------
(* Configuration: GetMatchConfig, GetLootboxConfig, game data *)

WinXP == 100
LossXP == 25
TokensPerRoundWin == 2
TokensPerRoundLoss == 1
TokensPerSoloRound == 1
TokenExchangeThresh == 6
TokenRoundCap == 3
maxRoundsPerMatch == 10
MatchWinTier == "standard"
MatchLossTier == "standard"

\* Game data (gamedata/items.json): the known pets and classes, the
\* "player_level" curve and the curve of the pets, each with the reward
\* bundles of its levels (gold only here).
DefaultPetID == 0
DefaultClassID == 0
UnknownItemID == 99
GamePets == {DefaultPetID}
GameClasses == {DefaultClassID}
PlayerTreeMaxLevel == 3
PlayerTreeBaseXP == 50
InitDrops == 1          \* drop slots each player holds at the start
LootboxRandMax == 0     \* range of the random suffix of a loot container id

ValidateItemExists(known, id) == id \in known

RECURSIVE CumulativeXP(_, _)
\* LoadGameData: threshold of a level = sum of BaseXP * l * l up to it.
CumulativeXP(baseXP, level) ==
    IF level <= 0 THEN 0 ELSE CumulativeXP(baseXP, level - 1) + baseXP * level * level

LevelThresholds(tree) ==
    [l \in 0..tree.MaxLevel |-> CumulativeXP(tree.BaseXP, l)]

storageKeyPet == "pets"
storageKeyClass == "classes"
CategoryPlayer == "player"
walletKeyGold == "gold"
LevelGold == 10         \* gold of one level's reward bundle

\* tree.Rewards: the bundle of each rewarded level; level 1 has none.
TreeRewards(maxLevel) == [l \in 2..maxLevel |-> (walletKeyGold :> LevelGold * l)]

PlayerTree == [MaxLevel |-> PlayerTreeMaxLevel, BaseXP |-> PlayerTreeBaseXP,
               Rewards |-> TreeRewards(PlayerTreeMaxLevel)]

PetTreeMaxLevel == 3
PetTreeBaseXP == 100
PetTree == [MaxLevel |-> PetTreeMaxLevel, BaseXP |-> PetTreeBaseXP,
            Rewards |-> TreeRewards(PetTreeMaxLevel)]

\* GameData.Pets / GameData.Classes by storage category; any other category
\* (backgrounds and piece styles are not modelled) knows no item.
ItemsOfCategory(category) ==
    IF category = storageKeyPet THEN GamePets
    ELSE IF category = storageKeyClass THEN GameClasses
    ELSE {}

RECURSIVE BinarySearchLevel(_, _, _, _)
BinarySearchLevel(thresholds, exp, low, high) ==
    IF low > high THEN high
    ELSE LET mid == (low + high) \div 2 IN
         IF exp >= thresholds[mid]
         THEN BinarySearchLevel(thresholds, exp, mid + 1, high)
         ELSE BinarySearchLevel(thresholds, exp, low, mid - 1)

CalculateLevel(tree, exp) ==
    LET thresholds == LevelThresholds(tree) IN
    IF exp < 0 THEN 1
    ELSE IF exp >= thresholds[tree.MaxLevel] THEN tree.MaxLevel
    ELSE BinarySearchLevel(thresholds, exp, 1, tree.MaxLevel)

\* A round of the request's round history.
Round(n, won) == [RoundNumber |-> n, PlayerWon |-> won, DurationSec |-> 30]

\* The tokens of one entry of the round history: nothing outside the
\* earning window, otherwise the solo, win or loss rate.
RoundTokens(r, isSolo) ==
    IF r.RoundNumber < 1 \/ r.RoundNumber > TokenRoundCap THEN 0
    ELSE IF isSolo THEN TokensPerSoloRound
    ELSE IF r.PlayerWon THEN TokensPerRoundWin
    ELSE TokensPerRoundLoss

\* The sum over the entries lo..hi, taken by halves to keep the evaluation
\* shallow on long histories.
RECURSIVE SumRoundTokens(_, _, _, _)
SumRoundTokens(rounds, isSolo, lo, hi) ==
    IF lo > hi THEN 0
    ELSE IF lo = hi THEN RoundTokens(rounds[lo], isSolo)
    ELSE SumRoundTokens(rounds, isSolo, lo, (lo + hi) \div 2)
            + SumRoundTokens(rounds, isSolo, ((lo + hi) \div 2) + 1, hi)

EarnedFromRounds(rounds, isSolo) == SumRoundTokens(rounds, isSolo, 1, Len(rounds))

EarnedFromCounts(roundsWon, roundsLost, isSolo) ==
    LET over == roundsWon + roundsLost > TokenRoundCap
        excess == (roundsWon + roundsLost) - TokenRoundCap
        lost == IF ~over THEN roundsLost
                ELSE IF roundsLost >= excess THEN roundsLost - excess ELSE 0
        won0 == IF ~over \/ roundsLost >= excess THEN roundsWon
                ELSE roundsWon - (excess - roundsLost)
        won == IF over /\ roundsLost < excess /\ won0 < 0 THEN 0 ELSE won0
    IN  IF isSolo THEN (won + lost) * TokensPerSoloRound
        ELSE won * TokensPerRoundWin + lost * TokensPerRoundLoss

Min(a, b) == IF a < b THEN a ELSE b

\* A token count with the absolute cap only.
TokensWithoutSweepCap(req, isSolo) ==
    LET earned == IF Len(req.Rounds) > 0
                  THEN EarnedFromRounds(req.Rounds, isSolo)
                  ELSE EarnedFromCounts(req.RoundsWon, req.RoundsLost, isSolo)
    IN  Min(earned, maxRoundsPerMatch * TokensPerRoundWin)

computeTokensEarned(req, isSolo) ==
    LET earned == IF Len(req.Rounds) > 0
                  THEN EarnedFromRounds(req.Rounds, isSolo)
                  ELSE EarnedFromCounts(req.RoundsWon, req.RoundsLost, isSolo)
    IN  Min(Min(earned, TokenRoundCap * TokensPerRoundWin),
            maxRoundsPerMatch * TokensPerRoundWin)

\* validateRounds: when a round history is present, the aggregate counts
\* are replaced by the ones derived from it.
validateRounds(req) ==
    IF Len(req.Rounds) = 0 THEN req
    ELSE LET derivedWon == Cardinality({i \in 1..Len(req.Rounds) : req.Rounds[i].PlayerWon})
             derivedLost == Len(req.Rounds) - derivedWon
         IN  [req EXCEPT !.RoundsWon = derivedWon, !.RoundsLost = derivedLost]

\* Diminishing experience: 100%, 80%, 60%, 40%, then 25%.
XpMultiplierPct(matchesToday) ==
    IF matchesToday <= 1 THEN 100
    ELSE IF matchesToday = 2 THEN 80
    ELSE IF matchesToday = 3 THEN 60
    ELSE IF matchesToday = 4 THEN 40
    ELSE 25

AdjustedXP(xpAmount, matchesToday) ==
    LET adjusted == (xpAmount * XpMultiplierPct(matchesToday)) \div 100
    IN  IF adjusted < 1 THEN 1 ELSE adjusted

----------------------------------------------------------------------------
(* Records of the match lifecycle *)

ActiveMatchKey(userID) == <<storageCollectionActiveMatch, storageKeyCurrentMatch, userID>>
ResultKey(matchID, userID) == <<storageCollectionResults, matchID \o "_" \o userID, userID>>
HistoryKey(userID) == <<storageCollectionMatchHistory, storageKeyLastMatch, userID>>
DailyKey(userID) == <<storageCollectionDrops, storageKeyDailyMatches, userID>>
PlayerProgKey(userID) == <<storageCollectionProgression, "player_0", userID>>
LootboxKey(userID, id) == <<storageCollectionLootboxes, id, userID>>

Unconditional(key, value) == [key |-> key, value |-> value, version |-> EmptyVersion]

ErrCouldNotReadStorage == "could not read storage"
ErrCouldNotWriteStorage == "could not write storage"
ErrInvalidInput == "invalid request"
ErrInvalidItemID == "invalid item ID"
ErrActiveMatchExists == "active match already exists"
ErrRateLimit == "rate limit exceeded"
ErrNoActiveMatch == "no active match found"
ErrMatchIDMismatch == "match ID mismatch"
ErrTooShort == "match duration too short"
ErrStale == "stale active match expired"
\* The store's own error of a failed write of the claim, passed through.
ErrWriteClaim == "storage write error"
ErrCommit == "match reward commit failed"

NoPayload == [none |-> TRUE]
NoResp == [rpc |-> "none", matchID |-> "", err |-> "", payload |-> NoPayload]

NoRecord == [UserID |-> "", ClaimedWin |-> FALSE, Score |-> 0, SubmittedAt |-> 0, Resolved |-> FALSE]
NoRequest == [MatchID |-> "", Won |-> FALSE, FinalScore |-> 0, Rounds |-> <<>>,
              RoundsWon |-> 0, RoundsLost |-> 0,
              EquippedPetID |-> DefaultPetID, EquippedClassID |-> DefaultClassID]

\* Locals of a submission (req, opponentID, myRecord, consensusResult) and
\* what the submission has done so far.
NoSub == [req |-> NoRequest, opponentID |-> "", myRecord |-> NoRecord, consensusResult |-> "",
          claimedWin |-> FALSE,
          fresh |-> FALSE,        \* no own record existed when the claim was written
          afterOpponent |-> FALSE,\* the opponent's consensus had finished when the claim was written
          ownWrite |-> "none",    \* outcome of the write of the own claim
          opponentRead |-> "none",\* outcome of the read of the opponent's claim
          settled |-> FALSE,      \* the settlement commit succeeded
          rewardedWon |-> FALSE]  \* the win flag the rewards were computed with

----------------------------------------------------------------------------
(* RpcNotifyMatchStart *)

IsStale(activeMatch, t) == t - activeMatch.StartTime > maxMatchDurationMs

\* A cleanup whose failure takes the committed match history with it.
ClearOrLoseSettlement(st, userID, deleteFails) ==
    IF deleteFails THEN StorageDelete(st, HistoryKey(userID))
    ELSE StorageDelete(st, ActiveMatchKey(userID))

clearActiveMatch(st, userID, deleteFails) ==
    IF deleteFails THEN st ELSE StorageDelete(st, ActiveMatchKey(userID))

\* A start that never looks at the prior record.
NeverBlocksStart(existing, t) == FALSE

\* A start that any prior record blocks, however old.
AnyRecordBlocksStart(existing, t) == Len(existing) > 0

\* The prior record blocks a new start unless it is stale.
ActiveMatchBlocksStart(existing, t) ==
    Len(existing) > 0 /\ ~IsStale(existing[1].value, t)

NotifyMatchStart(p, matchID, opponentID, readFails, writeFails, deleteFails) ==
    /\ pc[p] = "idle"
    /\ calls[p] < MaxCalls
    /\ calls' = [calls EXCEPT ![p] = @ + 1]
    /\ LET existing == IF readFails THEN <<>>
                       ELSE StorageRead(storage, ActiveMatchKey(p))
           out(e) == [rpc |-> "notify", matchID |-> matchID, err |-> e,
                      payload |-> NoPayload]
       IN  IF matchID = ""
           THEN /\ resp' = [resp EXCEPT ![p] = out(ErrInvalidInput)]
                /\ UNCHANGED storage
           ELSE IF ActiveMatchBlocksStart(existing, now)
           THEN /\ resp' = [resp EXCEPT ![p] = out(ErrActiveMatchExists)]
                /\ UNCHANGED storage
           ELSE LET cleared == IF Len(existing) > 0
                               THEN clearActiveMatch(storage, p, deleteFails)
                               ELSE storage
                    activeMatch == [MatchID |-> matchID, StartTime |-> now,
                                    OpponentID |-> opponentID]
                IN  IF writeFails
                    THEN /\ storage' = cleared
                         /\ resp' = [resp EXCEPT ![p] = out(ErrCouldNotWriteStorage)]
                    ELSE /\ storage' = ApplyWrite(cleared,
                                          Unconditional(ActiveMatchKey(p), activeMatch))
                         /\ resp' = [resp EXCEPT ![p] = out("")]
    /\ UNCHANGED <<now, ticks, wallet, pc, sub, first, batch>>

----------------------------------------------------------------------------
(* RpcSubmitMatchResult: rate limit and active-match validation *)

checkMatchRateLimit(st, userID, t, readFails) ==
    IF readFails THEN ErrCouldNotReadStorage
    ELSE LET objects == StorageRead(st, HistoryKey(userID)) IN
         IF Len(objects) > 0 /\ t - objects[1].value.LastMatchTime < minRateLimitMs
         THEN ErrRateLimit
         ELSE ""

\* [err, clear]: the error ("" when valid) and whether the stale record is cleared.
\* A validation that never compares the recorded match id with the submitted one.
ValidateIgnoringMatchID(st, userID, matchID, t, readFails) ==
    LET objects == StorageRead(st, ActiveMatchKey(userID)) IN
    IF readFails THEN [err |-> ErrCouldNotReadStorage, clear |-> FALSE]
    ELSE IF Len(objects) = 0 THEN [err |-> ErrNoActiveMatch, clear |-> FALSE]
    ELSE IF t - objects[1].value.StartTime < minMatchDurationMs
         THEN [err |-> ErrTooShort, clear |-> FALSE]
    ELSE IF t - objects[1].value.StartTime > maxMatchDurationMs
         THEN [err |-> ErrStale, clear |-> TRUE]
    ELSE [err |-> "", clear |-> FALSE]

\* A validation that rejects an expired match and leaves its record in place.
ValidateKeepingStaleRecord(st, userID, matchID, t, readFails) ==
    LET objects == StorageRead(st, ActiveMatchKey(userID)) IN
    IF readFails THEN [err |-> ErrCouldNotReadStorage, clear |-> FALSE]
    ELSE IF Len(objects) = 0 THEN [err |-> ErrNoActiveMatch, clear |-> FALSE]
    ELSE IF objects[1].value.MatchID # matchID THEN [err |-> ErrMatchIDMismatch, clear |-> FALSE]
    ELSE IF t - objects[1].value.StartTime < minMatchDurationMs
         THEN [err |-> ErrTooShort, clear |-> FALSE]
    ELSE IF t - objects[1].value.StartTime > maxMatchDurationMs
         THEN [err |-> ErrStale, clear |-> FALSE]
    ELSE [err |-> "", clear |-> FALSE]

\* A validation with no minimum duration.
ValidateWithoutFloor(st, userID, matchID, t, readFails) ==
    LET objects == StorageRead(st, ActiveMatchKey(userID)) IN
    IF readFails THEN [err |-> ErrCouldNotReadStorage, clear |-> FALSE]
    ELSE IF Len(objects) = 0 THEN [err |-> ErrNoActiveMatch, clear |-> FALSE]
    ELSE IF objects[1].value.MatchID # matchID THEN [err |-> ErrMatchIDMismatch, clear |-> FALSE]
    ELSE IF t - objects[1].value.StartTime > maxMatchDurationMs
         THEN [err |-> ErrStale, clear |-> TRUE]
    ELSE [err |-> "", clear |-> FALSE]

validateActiveMatch(st, userID, matchID, t, readFails) ==
    LET objects == StorageRead(st, ActiveMatchKey(userID)) IN
    IF readFails THEN [err |-> ErrCouldNotReadStorage, clear |-> FALSE]
    ELSE IF Len(objects) = 0 THEN [err |-> ErrNoActiveMatch, clear |-> FALSE]
    ELSE IF objects[1].value.MatchID # matchID THEN [err |-> ErrMatchIDMismatch, clear |-> FALSE]
    ELSE IF t - objects[1].value.StartTime < minMatchDurationMs
         THEN [err |-> ErrTooShort, clear |-> FALSE]
    ELSE IF t - objects[1].value.StartTime > maxMatchDurationMs
         THEN [err |-> ErrStale, clear |-> TRUE]
    ELSE [err |-> "", clear |-> FALSE]

SubmitResp(matchID, e, payload) ==
    [rpc |-> "submit", matchID |-> matchID, err |-> e, payload |-> payload]

\* The call up to the consensus step. A rejected call ends here.
SubmitBegin(p, request, historyReadFails, activeReadFails, deleteFails) ==
    /\ pc[p] = "idle"
    /\ calls[p] < MaxCalls
    /\ calls' = [calls EXCEPT ![p] = @ + 1]
    /\ LET limited == checkMatchRateLimit(storage, p, now, historyReadFails)
           req == validateRounds(request)
           valid == validateActiveMatch(storage, p, req.MatchID, now, activeReadFails)
           reject(e) == resp' = [resp EXCEPT ![p] = SubmitResp(req.MatchID, e, NoPayload)]
       IN  IF limited # ""
           THEN /\ reject(limited)
                /\ UNCHANGED <<storage, pc, sub>>
           ELSE IF valid.err # ""
           THEN /\ reject(valid.err)
                /\ storage' = IF valid.clear
                              THEN clearActiveMatch(storage, p, deleteFails)
                              ELSE storage
                /\ UNCHANGED <<pc, sub>>
           ELSE LET activeMatch == storage[ActiveMatchKey(p)].value
                    solo == activeMatch.OpponentID = ""
                IN  /\ sub' = [sub EXCEPT ![p] =
                            [NoSub EXCEPT !.req = req,
                                          !.claimedWin = req.Won,
                                          !.opponentID = activeMatch.OpponentID,
                                          !.consensusResult = IF solo THEN "ok" ELSE ""]]
                    /\ pc' = [pc EXCEPT ![p] = IF solo THEN "settle" ELSE "writeOwn"]
                    /\ UNCHANGED <<storage, resp>>
    /\ UNCHANGED <<now, ticks, wallet, first, batch>>

----------------------------------------------------------------------------
(* resolveMatchConsensus: write own claim, read the opponent's, mark resolved *)

ConsensusDone(q, matchID) ==
    /\ sub[q].req.MatchID = matchID
    /\ sub[q].consensusResult # ""

\* A failed write of the own claim that is not noticed.
WriteOwnIgnoringFailure(p, writeFails) ==
    /\ pc[p] = "writeOwn"
    /\ LET myRecord == [UserID |-> p, ClaimedWin |-> sub[p].req.Won,
                        Score |-> sub[p].req.FinalScore, SubmittedAt |-> now,
                        Resolved |-> FALSE]
           key == ResultKey(sub[p].req.MatchID, p)
       IN  /\ storage' = IF writeFails THEN storage
                         ELSE ApplyWrite(storage, Unconditional(key, myRecord))
           /\ sub' = [sub EXCEPT ![p].myRecord = myRecord,
                                 ![p].ownWrite = IF writeFails THEN "failed" ELSE "ok",
                                 ![p].fresh = key \notin DOMAIN storage,
                                 ![p].afterOpponent =
                                     ConsensusDone(sub[p].opponentID, sub[p].req.MatchID)]
           /\ pc' = [pc EXCEPT ![p] = "readOpp"]
           /\ UNCHANGED resp
    /\ UNCHANGED <<now, ticks, wallet, first, calls, batch>>

\* Step 1: write our claim first, unconditionally. A failed write fails the call.
WriteOwn(p, writeFails) ==
    /\ pc[p] = "writeOwn"
    /\ LET myRecord == [UserID |-> p, ClaimedWin |-> sub[p].req.Won,
                        Score |-> sub[p].req.FinalScore, SubmittedAt |-> now,
                        Resolved |-> FALSE]
           key == ResultKey(sub[p].req.MatchID, p)
       IN  IF writeFails
           THEN /\ sub' = [sub EXCEPT ![p].ownWrite = "failed"]
                /\ pc' = [pc EXCEPT ![p] = "idle"]
                /\ resp' = [resp EXCEPT ![p] =
                                SubmitResp(sub[p].req.MatchID, ErrWriteClaim, NoPayload)]
                /\ UNCHANGED storage
           ELSE /\ storage' = ApplyWrite(storage, Unconditional(key, myRecord))
                /\ sub' = [sub EXCEPT ![p].myRecord = myRecord,
                                      ![p].ownWrite = "ok",
                                      ![p].fresh = key \notin DOMAIN storage,
                                      ![p].afterOpponent =
                                          ConsensusDone(sub[p].opponentID, sub[p].req.MatchID)]
                /\ pc' = [pc EXCEPT ![p] = "readOpp"]
                /\ UNCHANGED resp
    /\ UNCHANGED <<now, ticks, wallet, first, calls, batch>>

\* A consensus that takes a missing opponent record for agreement.
ConsensusAbsentIsOk(opponentResults, readErr, claimedWin) ==
    IF readErr THEN "pending"
    ELSE IF Len(opponentResults) = 0 THEN "ok"
    ELSE IF opponentResults[1].value.Resolved THEN "resolved"
    ELSE IF claimedWin /\ opponentResults[1].value.ClaimedWin THEN "conflict"
    ELSE "ok"

\* A consensus without the mutual-win check.
ConsensusWithoutConflict(opponentResults, readErr, claimedWin) ==
    IF readErr \/ Len(opponentResults) = 0 THEN "pending"
    ELSE IF opponentResults[1].value.Resolved THEN "resolved"
    ELSE "ok"

\* The role the opponent's record decides; "ok" is returned after the own
\* record has been marked resolved.
ConsensusAfterRead(opponentResults, readErr, claimedWin) ==
    IF readErr \/ Len(opponentResults) = 0 THEN "pending"
    ELSE IF opponentResults[1].value.Resolved THEN "resolved"
    ELSE IF claimedWin /\ opponentResults[1].value.ClaimedWin THEN "conflict"
    ELSE "ok"

\* Step 2: read the opponent's claim after writing ours.
ReadOpp(p, readFails) ==
    /\ pc[p] = "readOpp"
    /\ LET opponentResults == StorageRead(storage, ResultKey(sub[p].req.MatchID, sub[p].opponentID))
           role == ConsensusAfterRead(opponentResults, readFails, sub[p].req.Won)
       IN  /\ sub' = [sub EXCEPT
                        ![p].opponentRead = IF readFails THEN "failed"
                                            ELSE IF Len(opponentResults) = 0 THEN "absent"
                                            ELSE "found",
                        ![p].consensusResult = IF role = "ok" THEN "" ELSE role]
           /\ pc' = [pc EXCEPT ![p] = IF role = "ok" THEN "markResolved" ELSE "settle"]
    /\ UNCHANGED <<now, ticks, storage, wallet, resp, first, calls, batch>>

\* A resolution that flags the opponent's record instead of the own one.
MarkOpponentResolved(p, writeFails) ==
    /\ pc[p] = "markResolved"
    /\ LET key == ResultKey(sub[p].req.MatchID, sub[p].opponentID) IN
       /\ storage' = IF writeFails THEN storage
                     ELSE ApplyWrite(storage,
                            Unconditional(key, [storage[key].value EXCEPT !.Resolved = TRUE]))
       /\ sub' = [sub EXCEPT ![p].consensusResult = "ok"]
       /\ pc' = [pc EXCEPT ![p] = "settle"]
    /\ UNCHANGED <<now, ticks, wallet, resp, first, calls, batch>>

\* Mark the own record resolved (the outcome of this write is not looked at)
\* and return "ok".
MarkResolved(p, writeFails) ==
    /\ pc[p] = "markResolved"
    /\ LET myRecord == [sub[p].myRecord EXCEPT !.Resolved = TRUE] IN
       /\ storage' = IF writeFails THEN storage
                     ELSE ApplyWrite(storage,
                            Unconditional(ResultKey(sub[p].req.MatchID, p), myRecord))
       /\ sub' = [sub EXCEPT ![p].myRecord = myRecord, ![p].consensusResult = "ok"]
       /\ pc' = [pc EXCEPT ![p] = "settle"]
    /\ UNCHANGED <<now, ticks, wallet, resp, first, calls, batch>>

----------------------------------------------------------------------------
(* Reward role, player experience, settlement *)

\* A role switch that forgets to withhold the win of the first submitter.
ActualWonHonouringPending(consensusResult, won) ==
    IF consensusResult \in {"resolved", "conflict"} THEN FALSE ELSE won

\* Only "ok" keeps the claimed win; pending, resolved and conflict void it.
ActualWon(consensusResult, won) ==
    IF consensusResult \in {"pending", "resolved", "conflict"} THEN FALSE ELSE won

\* The daily match count is read and written back on its own, with the
\* version that was read. [st, count, err]
incrementDailyMatchCount(st, userID, t, writeFails) ==
    LET objects == StorageRead(st, DailyKey(userID))
        stored == IF Len(objects) > 0 THEN objects[1].value
                  ELSE [Count |-> 0, ResetUnix |-> 0]
        version == IF Len(objects) > 0 THEN objects[1].version ELSE EmptyVersion
        midnightUnix == (t \div 86400000) * 86400
        today == IF stored.ResetUnix < midnightUnix
                 THEN [Count |-> 0, ResetUnix |-> midnightUnix]
                 ELSE stored
        data == [today EXCEPT !.Count = @ + 1]
        write == [key |-> DailyKey(userID), value |-> data, version |-> version]
    IN  IF writeFails \/ ~WriteAccepted(st, write)
        THEN [st |-> st, count |-> data.Count, err |-> TRUE]
        ELSE [st |-> ApplyWrite(st, write), count |-> data.Count, err |-> FALSE]

InitialProgression == [Level |-> 1, Exp |-> 0]

\* GetItemProgression: the stored record with its version, or a freshly
\* initialised one, saved at once and returned without a version. [st, prog, version, err]
GetItemProgression(st, key, readFails) ==
    LET objects == StorageRead(st, key) IN
    IF readFails
    THEN [st |-> st, prog |-> InitialProgression, version |-> EmptyVersion, err |-> TRUE]
    ELSE IF Len(objects) = 0
    THEN [st |-> ApplyWrite(st, Unconditional(key, InitialProgression)),
          prog |-> InitialProgression, version |-> EmptyVersion, err |-> FALSE]
    ELSE [st |-> st, prog |-> objects[1].value, version |-> objects[1].version, err |-> FALSE]

ProgressionKeyPet == "pet_"
ProgressionKeyClass == "class_"
ItemProgKey(userID, progressionKey, itemID) ==
    <<storageCollectionProgression, progressionKey \o ToString(itemID), userID>>

\* PrepareRewardItems: the currency rewards of a bundle as one ledger update;
\* refused for an item the game data does not know. [pending, err]
PrepareRewardItems(userID, rewards, itemType, itemID) ==
    IF ~ValidateItemExists(ItemsOfCategory(itemType), itemID)
    THEN [pending |-> NewPendingWrites, err |-> TRUE]
    ELSE [pending |-> IF DOMAIN rewards # {}
                      THEN AddWalletUpdate(NewPendingWrites, userID, rewards)
                      ELSE NewPendingWrites,
          err |-> FALSE]

\* PrepareLevelRewards: nothing for a level without a bundle. [pending, err]
PrepareLevelRewards(userID, tree, level, itemType, itemID) ==
    IF level \notin DOMAIN tree.Rewards
    THEN [pending |-> NewPendingWrites, err |-> FALSE]
    ELSE PrepareRewardItems(userID, tree.Rewards[level], itemType, itemID)

RECURSIVE LevelUpRewards(_, _, _, _, _, _, _)
\* The level-up loop: the bundle of each level lvl..resultLevel is merged
\* into the batch; a level whose preparation fails is logged and passed over.
LevelUpRewards(pending, userID, tree, lvl, resultLevel, itemType, itemID) ==
    IF lvl > resultLevel THEN pending
    ELSE LET levelRewards == PrepareLevelRewards(userID, tree, lvl, itemType, itemID) IN
         LevelUpRewards(IF levelRewards.err THEN pending
                        ELSE Merge(pending, levelRewards.pending),
                        userID, tree, lvl + 1, resultLevel, itemType, itemID)

MaxExperienceGrant == 1000000
MaxInt32 == 2147483647
ErrInvalidExperience == "invalid experience amount"
ErrInvalidConfig == "invalid item configuration"

\* GetLevelTreeName: pets and classes share one curve here.
ItemTree(itemType) == PetTree

\* A progression update that stores whatever level the curve computes.
UpdateStoringCalculatedLevel(prog, tree, exp) ==
    LET sum == prog.Exp + exp
        maxExp == LevelThresholds(tree)[tree.MaxLevel]
        newExp == IF sum > maxExp THEN maxExp ELSE sum
        calculatedLevel == CalculateLevel(tree, newExp)
    IN  [prog |-> [Level |-> calculatedLevel, Exp |-> newExp],
         oldLevel |-> prog.Level,
         resultLevel |-> IF calculatedLevel > prog.Level THEN calculatedLevel ELSE 0]

\* The update PrepareExperience applies to the stored progression: add,
\* cap the experience at the last threshold, raise the level if the curve
\* gives a higher one. [prog, oldLevel, resultLevel]
ExperienceUpdate(prog, tree, exp) ==
    LET sum == prog.Exp + exp
        newExp0 == IF sum < prog.Exp THEN MaxInt32 ELSE sum
        maxExp == LevelThresholds(tree)[tree.MaxLevel]
        newExp1 == IF newExp0 > maxExp THEN maxExp ELSE newExp0
        calculatedLevel0 == CalculateLevel(tree, newExp1)
        capped == calculatedLevel0 > tree.MaxLevel
        calculatedLevel == IF capped THEN tree.MaxLevel ELSE calculatedLevel0
        levelUp == calculatedLevel > prog.Level
    IN  [prog |-> [Level |-> IF levelUp THEN calculatedLevel ELSE prog.Level,
                   Exp |-> IF capped THEN maxExp ELSE newExp1],
         oldLevel |-> prog.Level,
         resultLevel |-> IF levelUp THEN calculatedLevel ELSE 0]

\* PrepareExperience for a pet or a class. [st, pending, resultLevel, err]
PrepareExperience(st, userID, itemType, itemID, exp, progReadFails) ==
    LET out(e, s, pw, lvl) == [st |-> s, pending |-> pw, resultLevel |-> lvl, err |-> e]
        progressionKey == IF itemType = storageKeyPet THEN ProgressionKeyPet
                          ELSE ProgressionKeyClass
        key == ItemProgKey(userID, progressionKey, itemID)
        got == GetItemProgression(st, key, progReadFails)
        upd == ExperienceUpdate(got.prog, ItemTree(itemType), exp)
        progWrite == [key |-> key, value |-> upd.prog, version |-> got.version]
    IN  IF exp = 0 THEN out("", st, NewPendingWrites, 0)
        ELSE IF exp > MaxExperienceGrant THEN out(ErrInvalidExperience, st, NewPendingWrites, 0)
        ELSE IF ~ValidateItemExists(ItemsOfCategory(itemType), itemID)
        THEN out(ErrInvalidItemID, st, NewPendingWrites, 0)
        ELSE IF itemType \notin {storageKeyPet, storageKeyClass}
        THEN out(ErrInvalidConfig, st, NewPendingWrites, 0)
        ELSE IF got.err THEN out(ErrCouldNotReadStorage, got.st, NewPendingWrites, 0)
        ELSE out("", got.st,
                 LevelUpRewards(AddStorageWrite(NewPendingWrites, progWrite), userID,
                                ItemTree(itemType), upd.oldLevel + 1, upd.resultLevel,
                                itemType, itemID),
                 upd.resultLevel)

\* [st, pending, matchesToday, resultLevel, err]
preparePlayerXP(st, userID, xpAmount, t, dailyWriteFails, progReadFails) ==
    LET daily == incrementDailyMatchCount(st, userID, t, dailyWriteFails)
        matchesToday == IF daily.err THEN 5 ELSE daily.count
        adjustedXP == AdjustedXP(xpAmount, matchesToday)
        got == GetItemProgression(daily.st, PlayerProgKey(userID), progReadFails)
        oldLevel == got.prog.Level
        exp == got.prog.Exp + adjustedXP
        calculatedLevel == CalculateLevel(PlayerTree, exp)
        capped == calculatedLevel > PlayerTree.MaxLevel
        newExp == IF capped THEN LevelThresholds(PlayerTree)[PlayerTree.MaxLevel] ELSE exp
        newLevel0 == IF capped THEN PlayerTree.MaxLevel ELSE calculatedLevel
        levelUp == newLevel0 > oldLevel
        prog == [Level |-> IF levelUp THEN newLevel0 ELSE oldLevel, Exp |-> newExp]
        progWrite == [key |-> PlayerProgKey(userID), value |-> prog, version |-> got.version]
    IN  IF got.err
        THEN [st |-> got.st, pending |-> NewPendingWrites, matchesToday |-> matchesToday,
              resultLevel |-> 0, err |-> TRUE]
        ELSE [st |-> got.st,
              pending |-> LevelUpRewards(AddStorageWrite(NewPendingWrites, progWrite),
                                         userID, PlayerTree, oldLevel + 1,
                                         IF levelUp THEN newLevel0 ELSE 0,
                                         CategoryPlayer, 0),
              matchesToday |-> matchesToday,
              resultLevel |-> IF levelUp THEN newLevel0 ELSE 0, err |-> FALSE]

LootboxID(userID, t, rnd) == "lb_" \o userID \o "_" \o ToString(t) \o "_" \o ToString(rnd)

PrepareCreateLootbox(userID, tier, t, rnd) ==
    LET lootbox == [ID |-> LootboxID(userID, t, rnd), Tier |-> tier,
                    CreatedAt |-> t, Opened |-> FALSE]
    IN  [lootbox |-> lootbox,
         write |-> Unconditional(LootboxKey(userID, lootbox.ID), lootbox)]

\* Base experience of the match: halved (at least 1) for a solo match.
MatchXP(req, isSolo) ==
    LET baseXP == IF req.Won THEN WinXP ELSE LossXP IN
    IF ~isSolo THEN baseXP
    ELSE IF baseXP \div 2 < 1 THEN 1 ELSE baseXP \div 2

\* An exchange that needs more tokens than the threshold.
ExchangeAboveThresholdOnly(preTokens, preDrops, tokensEarned) ==
    LET postTokens0 == preTokens + tokensEarned
        willExchange == postTokens0 > TokenExchangeThresh /\ preDrops >= 1
    IN  [willExchange |-> willExchange, preTokens |-> preTokens, preDrops |-> preDrops,
         tokensEarned |-> tokensEarned,
         postTokens |-> IF ~willExchange /\ preDrops <= 0
                           /\ postTokens0 > TokenExchangeThresh
                        THEN TokenExchangeThresh ELSE postTokens0]

\* A ledger arithmetic that banks beyond the threshold when no drop is left.
ExchangeWithoutClamp(preTokens, preDrops, tokensEarned) ==
    LET postTokens0 == preTokens + tokensEarned
        willExchange == postTokens0 >= TokenExchangeThresh /\ preDrops >= 1
    IN  [willExchange |-> willExchange, preTokens |-> preTokens, preDrops |-> preDrops,
         tokensEarned |-> tokensEarned, postTokens |-> postTokens0]

\* The token ledger arithmetic: exchange when the threshold is reached and a
\* drop is left, clamp at the threshold when no drop is left.
\* [willExchange, preTokens, preDrops, tokensEarned, postTokens]
TokenExchange(preTokens, preDrops, tokensEarned) ==
    LET postTokens0 == preTokens + tokensEarned
        willExchange == postTokens0 >= TokenExchangeThresh /\ preDrops >= 1
    IN  [willExchange |-> willExchange, preTokens |-> preTokens, preDrops |-> preDrops,
         tokensEarned |-> tokensEarned,
         postTokens |-> IF ~willExchange /\ preDrops <= 0
                           /\ postTokens0 > TokenExchangeThresh
                        THEN TokenExchangeThresh ELSE postTokens0]

\* A batch whose exchange empties the token balance instead of carrying the
\* excess over.
RewardWritesResettingTokens(userID, t, xp, tok, made) ==
    LET pending0 == IF xp.err THEN NewPendingWrites ELSE Merge(NewPendingWrites, xp.pending)
        delta == tok.postTokens - tok.preTokens
        pending1 ==
            IF tok.willExchange
            THEN AddStorageWrite(
                    AddWalletUpdate(pending0, userID,
                        (walletKeyRoundTokens :> (0 - tok.preTokens))
                            @@ (walletKeyDropsLeft :> -1)),
                    made.write)
            ELSE IF delta > 0
            THEN AddWalletUpdate(pending0, userID, (walletKeyRoundTokens :> delta))
            ELSE pending0
    IN  AddStorageWrite(pending1, Unconditional(HistoryKey(userID), [LastMatchTime |-> t]))

\* A batch whose exchange takes the slot and the tokens and stores no lootbox.
RewardWritesWithoutLootbox(userID, t, xp, tok, made) ==
    LET pending0 == IF xp.err THEN NewPendingWrites ELSE Merge(NewPendingWrites, xp.pending)
        delta == tok.postTokens - tok.preTokens
        pending1 ==
            IF tok.willExchange
            THEN AddWalletUpdate(pending0, userID,
                    (walletKeyRoundTokens :> (tok.tokensEarned - TokenExchangeThresh))
                        @@ (walletKeyDropsLeft :> -1))
            ELSE IF delta > 0
            THEN AddWalletUpdate(pending0, userID, (walletKeyRoundTokens :> delta))
            ELSE pending0
    IN  AddStorageWrite(pending1, Unconditional(HistoryKey(userID), [LastMatchTime |-> t]))

\* The batch of the match: progression write, ledger deltas, lootbox, history.
RewardWrites(userID, t, xp, tok, made) ==
    LET pending0 == IF xp.err THEN NewPendingWrites ELSE Merge(NewPendingWrites, xp.pending)
        delta == tok.postTokens - tok.preTokens
        pending1 ==
            IF tok.willExchange
            THEN AddStorageWrite(
                    AddWalletUpdate(pending0, userID,
                        (walletKeyRoundTokens :> (tok.tokensEarned - TokenExchangeThresh))
                            @@ (walletKeyDropsLeft :> -1)),
                    made.write)
            ELSE IF delta > 0
            THEN AddWalletUpdate(pending0, userID, (walletKeyRoundTokens :> delta))
            ELSE pending0
    IN  AddStorageWrite(pending1, Unconditional(HistoryKey(userID), [LastMatchTime |-> t]))

RewardResult(t, xpAmount, xp, tok, made) ==
    [created_at |-> t,
     xp_granted |-> xpAmount,
     new_player_level |-> xp.resultLevel,
     lootboxes |-> IF tok.willExchange THEN <<made.lootbox.ID>> ELSE <<>>,
     daily_matches |-> xp.matchesToday,
     drops_remaining |-> IF tok.willExchange THEN tok.preDrops - 1 ELSE tok.preDrops,
     round_tokens |-> tok.postTokens]

RewardOutcome(commit, result, pending) ==
    [err |-> commit.err, st |-> commit.st, wal |-> commit.wal,
     result |-> result, pending |-> pending]

CommitRewards(wal, userID, t, xpAmount, xp, tok, made, commitFails) ==
    RewardOutcome(
        CommitPendingWrites(xp.st, wal, RewardWrites(userID, t, xp, tok, made), commitFails),
        RewardResult(t, xpAmount, xp, tok, made),
        RewardWrites(userID, t, xp, tok, made))

\* [err, st, wal, result, pending]: st carries the writes made outside the
\* commit even when the commit fails.
processMatchRewards(st, wal, userID, req, isSolo, t, rnd, fails) ==
    CommitRewards(wal, userID, t, MatchXP(req, isSolo),
        preparePlayerXP(st, userID, MatchXP(req, isSolo), t, fails.dailyWrite, fails.progRead),
        TokenExchange(IF fails.walletRead THEN 0 ELSE wal[userID][walletKeyRoundTokens],
                      IF fails.walletRead THEN 0 ELSE wal[userID][walletKeyDropsLeft],
                      computeTokensEarned(req, isSolo)),
        PrepareCreateLootbox(userID, IF req.Won THEN MatchWinTier ELSE MatchLossTier, t, rnd),
        fails.commit)

\* The rest of the call: role switch, item validation, rewards, cleanup, response.
Settle(p, rnd, fails) ==
    /\ pc[p] = "settle"
    /\ LET req0 == sub[p].req
           isSolo == sub[p].opponentID = ""
           actualWon == ActualWon(sub[p].consensusResult, req0.Won)
           req == [req0 EXCEPT !.Won = actualWon]
           done == processMatchRewards(storage, wallet, p, req, isSolo, now, rnd, fails)
           out(e, payload) == SubmitResp(req.MatchID, e, payload)
       IN  IF \/ ~ValidateItemExists(GamePets, req.EquippedPetID)
              \/ ~ValidateItemExists(GameClasses, req.EquippedClassID)
           THEN /\ resp' = [resp EXCEPT ![p] = out(ErrInvalidItemID, NoPayload)]
                /\ UNCHANGED <<storage, wallet, sub, first>>
           ELSE IF done.err
           THEN /\ resp' = [resp EXCEPT ![p] = out(ErrCommit, NoPayload)]
                /\ storage' = done.st
                /\ sub' = [sub EXCEPT ![p].rewardedWon = req.Won]
                /\ UNCHANGED <<wallet, first>>
           ELSE /\ resp' = [resp EXCEPT ![p] = out("", done.result)]
                /\ storage' = clearActiveMatch(done.st, p, fails.delete)
                /\ wallet' = done.wal
                /\ sub' = [sub EXCEPT ![p].settled = TRUE, ![p].rewardedWon = req.Won]
                /\ first' = IF first[p][req.MatchID] = NoResp
                            THEN [first EXCEPT ![p][req.MatchID] = out("", done.result)]
                            ELSE first
    /\ pc' = [pc EXCEPT ![p] = "idle"]
    /\ UNCHANGED <<now, ticks, calls, batch>>

----------------------------------------------------------------------------
(* Clock and the specification of the match lifecycle *)

Tick(step) ==
    /\ ticks < MaxTicks
    /\ now' = now + step
    /\ ticks' = ticks + 1
    /\ UNCHANGED <<storage, wallet, pc, sub, resp, first, calls, batch>>

RoundInputs ==
    { [Rounds |-> <<>>, RoundsWon |-> 0, RoundsLost |-> 0],
      [Rounds |-> <<Round(1, TRUE), Round(2, TRUE), Round(3, TRUE)>>,
       RoundsWon |-> 3, RoundsLost |-> 0] }

ItemInputs == { <<DefaultPetID, DefaultClassID>>, <<UnknownItemID, DefaultClassID>>,
                <<DefaultPetID, UnknownItemID>> }

RequestsFor(matchIDs, rounds, items) ==
    { [MatchID |-> m, Won |-> w, FinalScore |-> s, Rounds |-> r.Rounds,
       RoundsWon |-> r.RoundsWon, RoundsLost |-> r.RoundsLost,
       EquippedPetID |-> i[1], EquippedClassID |-> i[2]] :
        m \in matchIDs, w \in BOOLEAN, s \in Scores, r \in rounds, i \in items }

Requests == RequestsFor(MatchIDs, RoundInputs, ItemInputs)

SettleFailures ==
    [walletRead : BOOLEAN, dailyWrite : BOOLEAN, progRead : BOOLEAN,
     commit : BOOLEAN, delete : BOOLEAN]

Opponent(p) == CHOOSE q \in Players : q # p

EmptyBatch == [pending |-> NewPendingWrites, state |-> "off",
               st0 |-> <<>>, wal0 |-> <<>>, err |-> FALSE, rejected |-> FALSE]

InitWallet ==
    [p \in Players |-> (walletKeyDropsLeft :> InitDrops) @@ (walletKeyRoundTokens :> 0)]

Init ==
    /\ now = 0
    /\ ticks = 0
    /\ storage = <<>>
    /\ wallet = InitWallet
    /\ pc = [p \in Players |-> "idle"]
    /\ sub = [p \in Players |-> NoSub]
    /\ resp = [p \in Players |-> NoResp]
    /\ first = [p \in Players |-> [m \in MatchIDs |-> NoResp]]
    /\ calls = [p \in Players |-> 0]
    /\ batch = EmptyBatch

Next ==
    \/ \E step \in TickSteps : Tick(step)
    \/ \E p \in Players, m \in MatchIDs \cup {""}, o \in {"", "opponent"},
          rf \in BOOLEAN, wf \in BOOLEAN, df \in BOOLEAN :
            NotifyMatchStart(p, m, IF o = "" THEN "" ELSE Opponent(p), rf, wf, df)
    \/ \E p \in Players, request \in Requests, hf \in BOOLEAN, af \in BOOLEAN, df \in BOOLEAN :
            SubmitBegin(p, request, hf, af, df)
    \/ \E p \in Players, wf \in BOOLEAN : WriteOwn(p, wf)
    \/ \E p \in Players, rf \in BOOLEAN : ReadOpp(p, rf)
    \/ \E p \in Players, wf \in BOOLEAN : MarkResolved(p, wf)
    \/ \E p \in Players, rnd \in 0..LootboxRandMax, fails \in SettleFailures :
            Settle(p, rnd, fails)

Spec == Init /\ [][Next]_vars

----------------------------------------------------------------------------
(* One player's matches over time. The named opponent never submits. *)

LifecyclePlayer == "A"

LifecycleFailures ==
    [walletRead : {FALSE}, dailyWrite : {FALSE}, progRead : {FALSE},
     commit : BOOLEAN, delete : BOOLEAN]

NextLifecycle ==
    \/ \E step \in TickSteps : Tick(step)
    \/ \E m \in MatchIDs \cup {""}, o \in {"", Opponent(LifecyclePlayer)},
          rf \in BOOLEAN, wf \in BOOLEAN, df \in BOOLEAN :
            NotifyMatchStart(LifecyclePlayer, m, o, rf, wf, df)
    \/ \E request \in RequestsFor(MatchIDs, RoundInputs, ItemInputs),
          hf \in BOOLEAN, af \in BOOLEAN, df \in BOOLEAN :
            SubmitBegin(LifecyclePlayer, request, hf, af, df)
    \/ \E wf \in BOOLEAN : WriteOwn(LifecyclePlayer, wf)
    \/ \E rf \in BOOLEAN : ReadOpp(LifecyclePlayer, rf)
    \/ \E rnd \in 0..LootboxRandMax, fails \in LifecycleFailures :
            Settle(LifecyclePlayer, rnd, fails)

SpecLifecycle == Init /\ [][NextLifecycle]_vars

----------------------------------------------------------------------------
(* One player's match starts over time, with no submission in between. *)

NextStart ==
    \/ \E step \in TickSteps : Tick(step)
    \/ \E m \in MatchIDs \cup {""}, o \in {"", Opponent(LifecyclePlayer)},
          rf \in BOOLEAN, wf \in BOOLEAN, df \in BOOLEAN :
            NotifyMatchStart(LifecyclePlayer, m, o, rf, wf, df)

SpecStart == Init /\ [][NextStart]_vars

----------------------------------------------------------------------------
(* One player's submissions with every store and ledger failure that the  *)
(* reward settlement can meet. Match starts and the validation reads      *)
(* succeed; the named opponent never submits.                             *)

SettleMatch == "m1"

SettleRequests ==
    RequestsFor({SettleMatch}, RoundInputs, { <<DefaultPetID, DefaultClassID>> })

NextSettle ==
    \/ \E step \in TickSteps : Tick(step)
    \/ \E o \in {"", Opponent(LifecyclePlayer)} :
            NotifyMatchStart(LifecyclePlayer, SettleMatch, o, FALSE, FALSE, FALSE)
    \/ \E request \in SettleRequests :
            SubmitBegin(LifecyclePlayer, request, FALSE, FALSE, FALSE)
    \/ WriteOwn(LifecyclePlayer, FALSE)
    \/ ReadOpp(LifecyclePlayer, FALSE)
    \/ \E rnd \in 0..LootboxRandMax, fails \in SettleFailures :
            Settle(LifecyclePlayer, rnd, fails)

SpecSettle == Init /\ [][NextSettle]_vars

----------------------------------------------------------------------------
(* One player's submissions against the active-match record: any match id, *)
(* failing validation reads and a failing cleanup. Settlement itself meets *)
(* no failure.                                                             *)

ValidateRequests ==
    RequestsFor(MatchIDs, {[Rounds |-> <<>>, RoundsWon |-> 0, RoundsLost |-> 0]},
                { <<DefaultPetID, DefaultClassID>> })

\* Clock advances below, at and above the duration floor and past the ceiling.
ValidateTickSteps == {5000, 15000, 600000}

ValidateFailures ==
    [walletRead : {FALSE}, dailyWrite : {FALSE}, progRead : {FALSE},
     commit : {FALSE}, delete : {FALSE}]

NextValidate ==
    \/ \E step \in ValidateTickSteps : Tick(step)
    \/ \E m \in MatchIDs, o \in {"", Opponent(LifecyclePlayer)} :
            NotifyMatchStart(LifecyclePlayer, m, o, FALSE, FALSE, FALSE)
    \/ \E request \in ValidateRequests, hf \in BOOLEAN, af \in BOOLEAN, df \in BOOLEAN :
            SubmitBegin(LifecyclePlayer, request, hf, af, df)
    \/ WriteOwn(LifecyclePlayer, FALSE)
    \/ ReadOpp(LifecyclePlayer, FALSE)
    \/ \E fails \in ValidateFailures : Settle(LifecyclePlayer, 0, fails)

SpecValidate == Init /\ [][NextValidate]_vars

----------------------------------------------------------------------------
(* One player's matches and their rewards: every read succeeds, the commit *)
(* and the cleanup of the settlement may fail.                             *)

RewardFailures ==
    [walletRead : {FALSE}, dailyWrite : {FALSE}, progRead : {FALSE},
     commit : BOOLEAN, delete : BOOLEAN]

NextReward ==
    \/ \E step \in TickSteps : Tick(step)
    \/ \E o \in {"", Opponent(LifecyclePlayer)} :
            NotifyMatchStart(LifecyclePlayer, SettleMatch, o, FALSE, FALSE, FALSE)
    \/ \E request \in SettleRequests :
            SubmitBegin(LifecyclePlayer, request, FALSE, FALSE, FALSE)
    \/ WriteOwn(LifecyclePlayer, FALSE)
    \/ ReadOpp(LifecyclePlayer, FALSE)
    \/ \E rnd \in 0..LootboxRandMax, fails \in RewardFailures :
            Settle(LifecyclePlayer, rnd, fails)

SpecReward == Init /\ [][NextReward]_vars

----------------------------------------------------------------------------
(* One match of one player, settled from any ledger the token economy can *)
(* leave behind: no tokens, some banked, or the threshold reached with no  *)
(* slot; with or without a drop slot.                                      *)

LedgerTokens == {0, TokenExchangeThresh - 2, TokenExchangeThresh}
LedgerDrops == 0..InitDrops

InitLedger ==
    /\ now = 0
    /\ ticks = 0
    /\ storage = <<>>
    /\ \E tokens \in LedgerTokens, drops \in LedgerDrops :
            wallet = [InitWallet EXCEPT ![LifecyclePlayer] =
                        (walletKeyDropsLeft :> drops) @@ (walletKeyRoundTokens :> tokens)]
    /\ pc = [p \in Players |-> "idle"]
    /\ sub = [p \in Players |-> NoSub]
    /\ resp = [p \in Players |-> NoResp]
    /\ first = [p \in Players |-> [m \in MatchIDs |-> NoResp]]
    /\ calls = [p \in Players |-> MaxCalls - 2]
    /\ batch = EmptyBatch

SpecLedger == InitLedger /\ [][NextReward]_vars

----------------------------------------------------------------------------
(* Two players submitting results for the same match. Both have notified  *)
(* the start of match "m1" against each other, and the minimum duration   *)
(* has passed.                                                            *)

ConsensusMatch == "m1"

InitConsensus ==
    /\ now = minMatchDurationMs
    /\ ticks = 0
    /\ storage = [k \in {ActiveMatchKey(p) : p \in Players} |->
                    LET value == [MatchID |-> ConsensusMatch, StartTime |-> 0,
                                  OpponentID |-> Opponent(k[3])]
                    IN  [value |-> value, version |-> VersionOf(value)]]
    /\ wallet = InitWallet
    /\ pc = [p \in Players |-> "idle"]
    /\ sub = [p \in Players |-> NoSub]
    /\ resp = [p \in Players |-> NoResp]
    /\ first = [p \in Players |-> [m \in MatchIDs |-> NoResp]]
    /\ calls = [p \in Players |-> 1]
    /\ batch = EmptyBatch

ConsensusRequests ==
    RequestsFor({ConsensusMatch}, {[Rounds |-> <<>>, RoundsWon |-> 2, RoundsLost |-> 1]},
                { <<DefaultPetID, DefaultClassID>>, <<UnknownItemID, DefaultClassID>> })

ConsensusFailures ==
    [walletRead : {FALSE}, dailyWrite : {FALSE}, progRead : {FALSE},
     commit : {FALSE}, delete : {FALSE}]

NextConsensus ==
    \/ \E p \in Players, request \in ConsensusRequests :
            SubmitBegin(p, request, FALSE, FALSE, FALSE)
    \/ \E p \in Players, wf \in BOOLEAN : WriteOwn(p, wf)
    \/ \E p \in Players, rf \in BOOLEAN : ReadOpp(p, rf)
    \/ \E p \in Players, wf \in BOOLEAN : MarkResolved(p, wf)
    \/ \E p \in Players, fails \in ConsensusFailures : Settle(p, 0, fails)

SpecConsensus == InitConsensus /\ [][NextConsensus]_vars

----------------------------------------------------------------------------
(* Both players of one match over time: repeated submissions, the clock    *)
(* moving by the rate-limit interval, the cleanup delete failing or not.   *)

WinnersFailures ==
    [walletRead : {FALSE}, dailyWrite : {FALSE}, progRead : {FALSE},
     commit : {FALSE}, delete : BOOLEAN]

NextWinners ==
    \/ Tick(minRateLimitMs)
    \/ \E p \in Players, request \in ConsensusRequests :
            SubmitBegin(p, request, FALSE, FALSE, FALSE)
    \/ \E p \in Players : WriteOwn(p, FALSE)
    \/ \E p \in Players : ReadOpp(p, FALSE)
    \/ \E p \in Players : MarkResolved(p, FALSE)
    \/ \E p \in Players, fails \in WinnersFailures : Settle(p, 0, fails)

\* Both players are in the match, each with two submissions to make.
InitWinners ==
    /\ now = minMatchDurationMs
    /\ ticks = 0
    /\ storage = [k \in {ActiveMatchKey(p) : p \in Players} |->
                    LET value == [MatchID |-> ConsensusMatch, StartTime |-> 0,
                                  OpponentID |-> Opponent(k[3])]
                    IN  [value |-> value, version |-> VersionOf(value)]]
    /\ wallet = InitWallet
    /\ pc = [p \in Players |-> "idle"]
    /\ sub = [p \in Players |-> NoSub]
    /\ resp = [p \in Players |-> NoResp]
    /\ first = [p \in Players |-> [m \in MatchIDs |-> NoResp]]
    /\ calls = [p \in Players |-> MaxCalls - 2]
    /\ batch = EmptyBatch

SpecWinners == InitWinners /\ [][NextWinners]_vars

----------------------------------------------------------------------------
(* The commit engine on its own: a caller accumulates object writes and    *)
(* ledger updates in a PendingWrites batch and commits it once.            *)

BatchKeys == {HistoryKey("A"), PlayerProgKey("A")}
BatchValue == [LastMatchTime |-> 1]
StaleVersion == VersionOf([LastMatchTime |-> 2])
VersionKinds == {"none", "current", "stale"}
BatchAmounts == {-1, 1}

InitCommit ==
    /\ now = 0
    /\ ticks = 0
    /\ storage = [k \in {HistoryKey("A")} |->
                    [value |-> [LastMatchTime |-> 0],
                     version |-> VersionOf([LastMatchTime |-> 0])]]
    /\ wallet = InitWallet
    /\ pc = [p \in Players |-> "idle"]
    /\ sub = [p \in Players |-> NoSub]
    /\ resp = [p \in Players |-> NoResp]
    /\ first = [p \in Players |-> [m \in MatchIDs |-> NoResp]]
    /\ calls = [p \in Players |-> 0]
    /\ batch = [EmptyBatch EXCEPT !.state = "building"]

\* The version a caller attaches: none, the one it would read now, or an old one.
VersionFor(st, key, kind) ==
    IF kind = "stale" THEN StaleVersion
    ELSE IF kind = "current" /\ key \in DOMAIN st THEN st[key].version
    ELSE EmptyVersion

BatchAddWrite(key, kind) ==
    /\ batch.state = "building"
    /\ Len(batch.pending.StorageWrites) < MaxBatchWrites
    /\ batch' = [batch EXCEPT !.pending =
                    AddStorageWrite(@, [key |-> key, value |-> BatchValue,
                                        version |-> VersionFor(storage, key, kind)])]
    /\ UNCHANGED <<now, ticks, storage, wallet, pc, sub, resp, first, calls>>

BatchAddDelta(userID, currency, amount) ==
    /\ batch.state = "building"
    /\ Len(batch.pending.WalletUpdates) < MaxBatchDeltas
    /\ batch' = [batch EXCEPT !.pending = AddWalletUpdate(@, userID, (currency :> amount))]
    /\ UNCHANGED <<now, ticks, storage, wallet, pc, sub, resp, first, calls>>

\* The store turns down some write or ledger update of the batch when the
\* items are taken in order.
StoreRejects(st, wal, pending) ==
    \/ \E i \in 1..Len(pending.StorageWrites) :
          LET before == ApplyWrites(st, SubSeq(pending.StorageWrites, 1, i - 1)) IN
          before.ok /\ ~WriteAccepted(before.st, pending.StorageWrites[i])
    \/ \E i \in 1..Len(pending.WalletUpdates) :
          LET before == ApplyWalletUpdates(wal, SubSeq(pending.WalletUpdates, 1, i - 1)) IN
          before.ok /\ ~ChangesetAccepted(before.wal[pending.WalletUpdates[i].user],
                                          pending.WalletUpdates[i].changeset)

BatchCommit(infraFails) ==
    /\ batch.state = "building"
    /\ \E done \in {CommitPendingWrites(storage, wallet, batch.pending, infraFails)} :
          /\ storage' = done.st
          /\ wallet' = done.wal
          /\ batch' = [batch EXCEPT !.state = "done", !.st0 = storage, !.wal0 = wallet,
                                    !.err = done.err,
                                    !.rejected = StoreRejects(storage, wallet, batch.pending)]
    /\ UNCHANGED <<now, ticks, pc, sub, resp, first, calls>>

NextCommit ==
    \/ \E key \in BatchKeys, kind \in VersionKinds : BatchAddWrite(key, kind)
    \/ \E userID \in Players, currency \in Currencies, amount \in BatchAmounts :
            BatchAddDelta(userID, currency, amount)
    \/ \E infraFails \in BOOLEAN : BatchCommit(infraFails)

SpecCommit == InitCommit /\ [][NextCommit]_vars

----------------------------------------------------------------------------
(* Opening a loot container: concurrent RpcOpenLootbox requests of the     *)
(* owner, each a read of the container followed by one commit.             *)

Openers == {"r1", "r2"}
MaxOpenCalls == 2
LootboxGoldMax == 1     \* drop table: gold is drawn from 0..LootboxGoldMax
ErrLootboxAlreadyOpened == "lootbox already opened"
ErrLootboxOpenFailed == "lootbox open failed"
StoredLootbox == PrepareCreateLootbox(LifecyclePlayer, MatchWinTier, 0, 0)
LootboxRequestIDs == {StoredLootbox.lootbox.ID, "lb_unknown"}

\* An opened mark written whatever the container's version is by now.
MarkOpenedUnconditionally(userID, lootbox, version) ==
    [key |-> LootboxKey(userID, lootbox.ID), value |-> [lootbox EXCEPT !.Opened = TRUE],
     version |-> EmptyVersion]

\* The write that marks the container opened, conditional on the version read.
MarkOpened(userID, lootbox, version) ==
    [key |-> LootboxKey(userID, lootbox.ID), value |-> [lootbox EXCEPT !.Opened = TRUE],
     version |-> version]

\* The batch of one opening: the currency rewards, then the opened mark.
\* The drop table here has no item chance.
OpenLootboxPending(userID, lootbox, version, gold) ==
    AddStorageWrite(IF gold > 0
                    THEN AddWalletUpdate(NewPendingWrites, userID, (walletKeyGold :> gold))
                    ELSE NewPendingWrites,
                    MarkOpened(userID, lootbox, version))

IdleOpener == [pc |-> "idle", id |-> "", pending |-> NewPendingWrites, err |-> "", calls |-> 0]

InitOpen ==
    /\ now = 0
    /\ ticks = 0
    /\ storage = ApplyWrite(<<>>, StoredLootbox.write)
    /\ wallet = [p \in Players |-> InitWallet[p] @@ (walletKeyGold :> 0)]
    /\ pc = [p \in Players |-> "idle"]
    /\ sub = [p \in Players |-> NoSub]
    /\ resp = [p \in Players |-> NoResp]
    /\ first = [p \in Players |-> [m \in MatchIDs |-> NoResp]]
    /\ calls = [p \in Players |-> 0]
    /\ batch = [state |-> "open", reqs |-> [r \in Openers |-> IdleOpener], opens |-> 0]

\* RpcOpenLootbox up to the commit: read the container, refuse a missing or
\* opened one, draw the contents and prepare the batch.
OpenRead(r, id, gold, readFails) ==
    /\ batch.state = "open"
    /\ batch.reqs[r].pc \in {"idle", "done"}
    /\ batch.reqs[r].calls < MaxOpenCalls
    /\ LET objects == StorageRead(storage, LootboxKey(LifecyclePlayer, id))
           me == [batch.reqs[r] EXCEPT !.id = id, !.calls = @ + 1,
                                       !.pending = NewPendingWrites]
       IN  batch' = [batch EXCEPT !.reqs[r] =
              IF readFails \/ Len(objects) = 0
              THEN [me EXCEPT !.pc = "done", !.err = ErrCouldNotReadStorage]
              ELSE IF objects[1].value.Opened
              THEN [me EXCEPT !.pc = "done", !.err = ErrLootboxAlreadyOpened]
              ELSE [me EXCEPT !.pc = "prepared", !.err = "",
                              !.pending = OpenLootboxPending(LifecyclePlayer, objects[1].value,
                                                             objects[1].version, gold)]]
    /\ UNCHANGED <<now, ticks, storage, wallet, pc, sub, resp, first, calls>>

\* RpcOpenLootbox from the commit on.
OpenCommit(r, commitFails) ==
    /\ batch.state = "open"
    /\ batch.reqs[r].pc = "prepared"
    /\ LET done == CommitPendingWrites(storage, wallet, batch.reqs[r].pending, commitFails) IN
       /\ storage' = done.st
       /\ wallet' = done.wal
       /\ batch' = [batch EXCEPT !.reqs[r].pc = "done",
                                 !.reqs[r].err = IF done.err THEN ErrLootboxOpenFailed ELSE "",
                                 !.opens = IF done.err THEN @ ELSE @ + 1]
    /\ UNCHANGED <<now, ticks, pc, sub, resp, first, calls>>

NextOpen ==
    \/ \E r \in Openers, id \in LootboxRequestIDs, gold \in 0..LootboxGoldMax, rf \in BOOLEAN :
            OpenRead(r, id, gold, rf)
    \/ \E r \in Openers, cf \in BOOLEAN : OpenCommit(r, cf)

SpecOpen == InitOpen /\ [][NextOpen]_vars

----------------------------------------------------------------------------
(* Merge on its own: any two small batches a and b, then a.Merge(b).       *)

MaxMergeWrites == 2
MaxMergeDeltas == 2
MergeWriteOptions ==
    {[key |-> HistoryKey("A"), value |-> BatchValue, version |-> EmptyVersion],
     [key |-> PlayerProgKey("A"), value |-> InitialProgression,
      version |-> VersionOf(InitialProgression)]}
MergeDeltaOptions ==
    {[user |-> "A", changeset |-> (walletKeyDropsLeft :> -1)
                                   @@ (walletKeyRoundTokens :> -TokenExchangeThresh)],
     [user |-> "A", changeset |-> (walletKeyRoundTokens :> TokensPerRoundWin)]}

RECURSIVE ListsOver(_, _)
\* Every list of at most len entries drawn from options.
ListsOver(options, len) ==
    IF len = 0 THEN {<<>>}
    ELSE LET shorter == ListsOver(options, len - 1) IN
         shorter \cup {Append(l, o) : l \in {x \in shorter : Len(x) = len - 1}, o \in options}

MergeInputs ==
    {[StorageWrites |-> w, WalletUpdates |-> u] :
        w \in ListsOver(MergeWriteOptions, MaxMergeWrites),
        u \in ListsOver(MergeDeltaOptions, MaxMergeDeltas)}

InitMerge ==
    /\ now = 0
    /\ ticks = 0
    /\ storage = <<>>
    /\ wallet = InitWallet
    /\ pc = [p \in Players |-> "idle"]
    /\ sub = [p \in Players |-> NoSub]
    /\ resp = [p \in Players |-> NoResp]
    /\ first = [p \in Players |-> [m \in MatchIDs |-> NoResp]]
    /\ calls = [p \in Players |-> 0]
    /\ \E a \in MergeInputs, b \in MergeInputs :
            batch = [state |-> "input", a |-> a, b |-> b, a0 |-> a]

MergeStep ==
    /\ batch.state = "input"
    /\ batch' = [batch EXCEPT !.state = "merged", !.a = Merge(batch.a, batch.b)]
    /\ UNCHANGED <<now, ticks, storage, wallet, pc, sub, resp, first, calls>>

NextMerge == MergeStep

SpecMerge == InitMerge /\ [][NextMerge]_vars

----------------------------------------------------------------------------
(* Experience grants on their own: the player's progression as the match   *)
(* settlement updates it, and a pet's as PrepareExperience updates it,     *)
(* each grant committed as its own batch.                                  *)

MaxGrants == 3
TreatXP == 1000
PlayerXPInputs == {WinXP, LossXP, WinXP \div 2, LossXP \div 2}
ExperienceInputs == {0, PetTreeBaseXP \div 2, TreatXP, MaxExperienceGrant,
                     MaxExperienceGrant + 1}

\* Stored player progressions to start from: none yet, or one full win
\* short of the curve's last threshold.
PlayerSeeds ==
    LET exp == LevelThresholds(PlayerTree)[PlayerTree.MaxLevel] - WinXP
        prog == [Level |-> CalculateLevel(PlayerTree, exp), Exp |-> exp]
    IN  {<<>>, (PlayerProgKey(LifecyclePlayer) :> [value |-> prog, version |-> VersionOf(prog)])}

NoGrant == [state |-> "xp", item |-> "", oldLevel |-> 0, resultLevel |-> 0,
            pending |-> NewPendingWrites, err |-> FALSE]

InitExperience ==
    /\ now = 0
    /\ ticks = 0
    /\ storage \in PlayerSeeds
    /\ wallet = [p \in Players |-> InitWallet[p] @@ (walletKeyGold :> 0)]
    /\ pc = [p \in Players |-> "idle"]
    /\ sub = [p \in Players |-> NoSub]
    /\ resp = [p \in Players |-> NoResp]
    /\ first = [p \in Players |-> [m \in MatchIDs |-> NoResp]]
    /\ calls = [p \in Players |-> 0]
    /\ batch = NoGrant

StoredLevel(st, key) == IF key \in DOMAIN st THEN st[key].value.Level ELSE InitialProgression.Level

\* The player's share of a settlement: preparePlayerXP and the commit of its batch.
GrantPlayerXP(p, xpAmount, dailyFails, readFails, commitFails) ==
    /\ batch.state = "xp"
    /\ calls[p] < MaxGrants
    /\ LET xp == preparePlayerXP(storage, p, xpAmount, now, dailyFails, readFails)
           commit == CommitPendingWrites(xp.st, wallet, xp.pending, commitFails)
       IN  /\ storage' = commit.st
           /\ wallet' = commit.wal
           /\ batch' = [state |-> "xp", item |-> CategoryPlayer,
                        oldLevel |-> StoredLevel(storage, PlayerProgKey(p)),
                        resultLevel |-> xp.resultLevel, pending |-> xp.pending,
                        err |-> xp.err \/ commit.err]
    /\ calls' = [calls EXCEPT ![p] = @ + 1]
    /\ UNCHANGED <<now, ticks, pc, sub, resp, first>>

\* A grant to a pet or a class: PrepareExperience and the commit of its batch.
GrantItemExperience(p, itemType, itemID, exp, readFails, commitFails) ==
    /\ batch.state = "xp"
    /\ calls[p] < MaxGrants
    /\ LET xp == PrepareExperience(storage, p, itemType, itemID, exp, readFails)
           commit == CommitPendingWrites(xp.st, wallet, xp.pending, commitFails)
           key == ItemProgKey(p, IF itemType = storageKeyPet THEN ProgressionKeyPet
                                 ELSE ProgressionKeyClass, itemID)
       IN  /\ storage' = commit.st
           /\ wallet' = commit.wal
           /\ batch' = [state |-> "xp", item |-> itemType,
                        oldLevel |-> StoredLevel(storage, key),
                        resultLevel |-> xp.resultLevel, pending |-> xp.pending,
                        err |-> xp.err # "" \/ commit.err]
    /\ calls' = [calls EXCEPT ![p] = @ + 1]
    /\ UNCHANGED <<now, ticks, pc, sub, resp, first>>

NextExperience ==
    \/ \E xpAmount \in PlayerXPInputs, df \in BOOLEAN, rf \in BOOLEAN, cf \in BOOLEAN :
            GrantPlayerXP(LifecyclePlayer, xpAmount, df, rf, cf)
    \/ \E itemType \in {storageKeyPet, storageKeyClass}, itemID \in {DefaultPetID, UnknownItemID},
          exp \in ExperienceInputs, rf \in BOOLEAN, cf \in BOOLEAN :
            GrantItemExperience(LifecyclePlayer, itemType, itemID, exp, rf, cf)

SpecExperience == InitExperience /\ [][NextExperience]_vars

----------------------------------------------------------------------------
(* computeTokensEarned on its own: any short round list, a list claiming  *)
(* many wins in the first round, and any aggregate counts with no list.    *)

RoundOptions ==
    { Round(n, w) : n \in {1, TokenRoundCap, TokenRoundCap + 1}, w \in BOOLEAN }

RECURSIVE RoundLists(_)
RoundLists(len) ==
    IF len = 0 THEN {<<>>}
    ELSE RoundLists(len - 1)
            \cup { Append(l, r) : l \in { x \in RoundLists(len - 1) : Len(x) = len - 1 },
                                  r \in RoundOptions }

ManyWins == [i \in 1..ClaimedWins |-> Round(1, TRUE)]

CountInputs == {-1, 0, 1, TokenRoundCap, TokenRoundCap + 1, ClaimedWins}

TokenInputs ==
    { [Rounds |-> l, RoundsWon |-> 0, RoundsLost |-> 0] :
        l \in (RoundLists(MaxRoundList) \ {<<>>}) \cup {ManyWins} }
    \cup { [Rounds |-> <<>>, RoundsWon |-> w, RoundsLost |-> l] :
            w \in CountInputs, l \in CountInputs }

InitTokens ==
    /\ now = 0
    /\ ticks = 0
    /\ storage = <<>>
    /\ wallet = InitWallet
    /\ pc = [p \in Players |-> "idle"]
    /\ sub = [p \in Players |-> NoSub]
    /\ resp = [p \in Players |-> NoResp]
    /\ first = [p \in Players |-> [m \in MatchIDs |-> NoResp]]
    /\ calls = [p \in Players |-> 0]
    /\ \E req \in TokenInputs, isSolo \in BOOLEAN :
            batch = [state |-> "input", req |-> req, isSolo |-> isSolo, earned |-> 0]

ComputeTokens ==
    /\ batch.state = "input"
    /\ batch' = [batch EXCEPT !.state = "done",
                              !.earned = computeTokensEarned(batch.req, batch.isSolo)]
    /\ UNCHANGED <<now, ticks, storage, wallet, pc, sub, resp, first, calls>>

NextTokens == ComputeTokens

SpecTokens == InitTokens /\ [][NextTokens]_vars

----------------------------------------------------------------------------
(* Two requests of one player in flight at the same time. Each request is  *)
(* RpcSubmitMatchResult for a solo match, cut at its storage calls: the     *)
(* checks, the wallet pre-read, the experience preparation, the commit.     *)

Racers == {"r1", "r2"}
RacePlayer == "A"
RaceMatch == "m1"
MaxRaceCalls == 3       \* submissions of the player per behaviour

RaceRounds ==
    { [Rounds |-> <<Round(1, TRUE), Round(2, TRUE), Round(3, TRUE)>>,
       RoundsWon |-> 3, RoundsLost |-> 0] }

RaceRequests ==
    { req \in RequestsFor({RaceMatch}, RaceRounds, {<<DefaultPetID, DefaultClassID>>}) :
        req.Won }

NoXP == [pending |-> NewPendingWrites, matchesToday |-> 0, resultLevel |-> 0, err |-> FALSE]

\* Locals of a request in flight and the outcome of its last call.
IdleRacer ==
    [pc |-> "idle", req |-> NoRequest, isSolo |-> TRUE,
     begun |-> 0,                    \* settlements committed when the checks passed
     preTokens |-> 0, preDrops |-> 0,
     xp |-> NoXP,
     base |-> InitialProgression,    \* the progression the write was prepared from
     t |-> 0,
     infra |-> FALSE,                \* the store failed the commit on its own
     out |-> "none"]

InitRace ==
    /\ now = minMatchDurationMs
    /\ ticks = 0
    /\ storage = ApplyWrite(<<>>,
            Unconditional(ActiveMatchKey(RacePlayer),
                [MatchID |-> RaceMatch, StartTime |-> 0, OpponentID |-> ""]))
    /\ \E drops \in {0, InitDrops} :
            wallet = [InitWallet EXCEPT ![RacePlayer][walletKeyDropsLeft] = drops]
    /\ pc = [p \in Players |-> "idle"]
    /\ sub = [p \in Players |-> NoSub]
    /\ resp = [p \in Players |-> NoResp]
    /\ first = [p \in Players |-> [m \in MatchIDs |-> NoResp]]
    /\ calls = [p \in Players |-> 0]
    /\ batch = [state |-> "race", reqs |-> [r \in Racers |-> IdleRacer],
                log |-> <<>>, calls |-> 0]

\* Rate limit, request validation, active-match validation, the solo
\* short cut of the consensus step and the item validation.
RaceBegin(r, request) ==
    /\ batch.state = "race"
    /\ batch.reqs[r].pc = "idle"
    /\ batch.calls < MaxRaceCalls
    /\ LET limited == checkMatchRateLimit(storage, RacePlayer, now, FALSE)
           req == validateRounds(request)
           valid == validateActiveMatch(storage, RacePlayer, req.MatchID, now, FALSE)
           reject(e) == batch' = [batch EXCEPT !.calls = @ + 1,
                                               !.reqs[r] = [IdleRacer EXCEPT !.out = e]]
       IN  IF limited # ""
           THEN /\ reject(limited)
                /\ UNCHANGED storage
           ELSE IF valid.err # ""
           THEN /\ reject(valid.err)
                /\ storage' = IF valid.clear
                              THEN clearActiveMatch(storage, RacePlayer, FALSE)
                              ELSE storage
           ELSE IF \/ ~ValidateItemExists(GamePets, req.EquippedPetID)
                   \/ ~ValidateItemExists(GameClasses, req.EquippedClassID)
           THEN /\ reject(ErrInvalidItemID)
                /\ UNCHANGED storage
           ELSE /\ batch' = [batch EXCEPT
                        !.calls = @ + 1,
                        !.reqs[r] = [IdleRacer EXCEPT
                            !.pc = "wallet", !.req = req,
                            !.isSolo = storage[ActiveMatchKey(RacePlayer)].value.OpponentID = "",
                            !.begun = Len(batch.log)]]
                /\ UNCHANGED storage
    /\ UNCHANGED <<now, ticks, wallet, pc, sub, resp, first, calls>>

\* processMatchRewards: the wallet pre-read.
RaceWallet(r) ==
    /\ batch.state = "race"
    /\ batch.reqs[r].pc = "wallet"
    /\ batch' = [batch EXCEPT
            !.reqs[r].pc = "xp",
            !.reqs[r].preTokens = wallet[RacePlayer][walletKeyRoundTokens],
            !.reqs[r].preDrops = wallet[RacePlayer][walletKeyDropsLeft]]
    /\ UNCHANGED <<now, ticks, storage, wallet, pc, sub, resp, first, calls>>

\* processMatchRewards: preparePlayerXP, which counts the match of the day
\* and reads (or creates) the progression record.
RaceXP(r) ==
    /\ batch.state = "race"
    /\ batch.reqs[r].pc = "xp"
    /\ LET q == batch.reqs[r]
           xp == preparePlayerXP(storage, RacePlayer, MatchXP(q.req, q.isSolo), now,
                                 FALSE, FALSE)
       IN  /\ storage' = xp.st
           /\ batch' = [batch EXCEPT
                    !.reqs[r].pc = "commit",
                    !.reqs[r].xp = [pending |-> xp.pending, matchesToday |-> xp.matchesToday,
                                    resultLevel |-> xp.resultLevel, err |-> xp.err],
                    !.reqs[r].base =
                        GetItemProgression(storage, PlayerProgKey(RacePlayer), FALSE).prog,
                    !.reqs[r].t = now]
    /\ UNCHANGED <<now, ticks, wallet, pc, sub, resp, first, calls>>

\* The exchange decision of request q, taken from its wallet pre-read.
RaceExchange(q) ==
    TokenExchange(q.preTokens, q.preDrops, computeTokensEarned(q.req, q.isSolo))

\* The settlement of request q against the stores as they are now.
RaceRewards(q, rnd, commitFails) ==
    CommitRewards(wallet, RacePlayer, q.t, MatchXP(q.req, q.isSolo),
        [pending |-> q.xp.pending, matchesToday |-> q.xp.matchesToday,
         resultLevel |-> q.xp.resultLevel, err |-> q.xp.err, st |-> storage],
        RaceExchange(q),
        PrepareCreateLootbox(RacePlayer,
            IF q.req.Won THEN MatchWinTier ELSE MatchLossTier, q.t, rnd),
        commitFails)

\* processMatchRewards: the commit, then the cleanup and the response.
RaceCommit(r, rnd, commitFails, deleteFails) ==
    /\ batch.state = "race"
    /\ batch.reqs[r].pc = "commit"
    /\ LET q == batch.reqs[r]
           done == RaceRewards(q, rnd, commitFails)
       IN  IF done.err
           THEN /\ batch' = [batch EXCEPT !.reqs[r].pc = "idle",
                                          !.reqs[r].infra = commitFails,
                                          !.reqs[r].out = ErrCommit]
                /\ UNCHANGED <<storage, wallet>>
           ELSE /\ storage' = clearActiveMatch(done.st, RacePlayer, deleteFails)
                /\ wallet' = done.wal
                /\ batch' = [batch EXCEPT
                        !.reqs[r].pc = "idle",
                        !.reqs[r].out = "",
                        !.log = Append(@, [r |-> r, matchID |-> q.req.MatchID,
                                           begun |-> q.begun, t |-> q.t,
                                           base |-> q.base,
                                           exchanged |-> RaceExchange(q).willExchange])]
    /\ UNCHANGED <<now, ticks, pc, sub, resp, first, calls>>

\* The player starts the next solo match once the last one is cleared.
RaceStart ==
    /\ Len(StorageRead(storage, ActiveMatchKey(RacePlayer))) = 0
    /\ NotifyMatchStart(RacePlayer, RaceMatch, "", FALSE, FALSE, FALSE)

NextRace ==
    \/ Tick(minRateLimitMs)
    \/ RaceStart
    \/ \E r \in Racers, request \in RaceRequests : RaceBegin(r, request)
    \/ \E r \in Racers : RaceWallet(r)
    \/ \E r \in Racers : RaceXP(r)
    \/ \E r \in Racers, rnd \in 0..LootboxRandMax, cf \in BOOLEAN, df \in BOOLEAN :
            RaceCommit(r, rnd, cf, df)

SpecRace == InitRace /\ [][NextRace]_vars

----------------------------------------------------------------------------
(* CalculateLevel on its own: either configured tree, any experience from  *)
(* below zero to beyond the last threshold.                                *)

LevelMargin == 2        \* experience values looked up beyond either end of a curve

LevelTrees == {PlayerTree, PetTree}

LevelExps(tree) ==
    (0 - LevelMargin) .. (LevelThresholds(tree)[tree.MaxLevel] + LevelMargin)

InitLevel ==
    /\ now = 0
    /\ ticks = 0
    /\ storage = <<>>
    /\ wallet = InitWallet
    /\ pc = [p \in Players |-> "idle"]
    /\ sub = [p \in Players |-> NoSub]
    /\ resp = [p \in Players |-> NoResp]
    /\ first = [p \in Players |-> [m \in MatchIDs |-> NoResp]]
    /\ calls = [p \in Players |-> 0]
    /\ \E tree \in LevelTrees :
        \E exp \in LevelExps(tree) :
            batch = [state |-> "exp", tree |-> tree, exp |-> exp, level |-> 0]

LevelLookup ==
    /\ batch.state = "exp"
    /\ batch' = [batch EXCEPT !.state = "level",
                              !.level = CalculateLevel(batch.tree, batch.exp)]
    /\ UNCHANGED <<now, ticks, storage, wallet, pc, sub, resp, first, calls>>

NextLevel == LevelLookup

SpecLevel == InitLevel /\ [][NextLevel]_vars

----------------------------------------------------------------------------
(* Properties *)

\* Player p's call of the given kind returns in this step.
SubmitReturns(p) ==
    /\ resp'[p].rpc = "submit"
    /\ pc'[p] = "idle"
    /\ pc[p] # "idle" \/ calls'[p] # calls[p]

NotifyReturns(p) ==
    /\ resp'[p].rpc = "notify"
    /\ calls'[p] # calls[p]

\* Experience record and ledger of a player.
ProgressionOf(st, p) == StorageRead(st, PlayerProgKey(p))

\* The two submissions are for the same two-player match, against each other.
SameMatch(p, q) ==
    /\ p # q
    /\ sub[p].req.MatchID # ""
    /\ sub[p].req.MatchID = sub[q].req.MatchID
    /\ sub[p].opponentID = q
    /\ sub[q].opponentID = p

\* p submitted first and q afterwards: each wrote its claim where none was
\* stored, p before q's consensus had run and q after p's had finished.
SubmittedInOrder(p, q) ==
    /\ SameMatch(p, q)
    /\ sub[p].fresh /\ sub[q].fresh
    /\ ~sub[p].afterOpponent /\ sub[q].afterOpponent
    /\ sub[p].consensusResult # "" /\ sub[q].consensusResult # ""
    /\ sub[q].opponentRead # "failed"

\* C1: for any (match, player), every submit-match-result call that returns
\* after the first successful one for that pair returns the identical
\* response and changes neither the player's ledger nor the player's
\* experience record.
C1_RepeatReturnsCachedResponse ==
    [][\A p \in Players, m \in MatchIDs :
          (first[p][m] # NoResp /\ SubmitReturns(p) /\ resp'[p].matchID = m)
              => /\ resp'[p] = first[p][m]
                 /\ wallet'[p] = wallet[p]
                 /\ ProgressionOf(storage', p) = ProgressionOf(storage, p)]_vars

\* C2: two submissions for the same two-player match never both obtain the
\* consensus role "ok", whatever the interleaving of their storage steps.
C2_NeverTwoOk ==
    \A p \in Players, q \in Players :
        SameMatch(p, q) => ~(sub[p].consensusResult = "ok" /\ sub[q].consensusResult = "ok")

\* C3: when the store turns down any one write or ledger update of a
\* committed batch, the object store and the ledger are exactly as before the
\* commit, and the commit returned an error.
C3_CommitAllOrNothing ==
    (batch.state = "done" /\ batch.rejected)
        => /\ batch.err
           /\ storage = batch.st0
           /\ wallet = batch.wal0

\* A rejected batch whose first write the store would have taken on its own.
C3_Witness ==
    /\ batch.state = "done"
    /\ batch.rejected
    /\ Len(batch.pending.StorageWrites) > 0
    /\ Len(batch.pending.WalletUpdates) > 0
    /\ WriteAccepted(batch.st0, batch.pending.StorageWrites[1])
    /\ batch.pending.StorageWrites[1].key \notin DOMAIN batch.st0

\* C4: when p submits first claiming a win and q afterwards claiming a loss
\* (and q's read of p's record does not fail), p's role is "pending" and its
\* rewards are computed without the win; q's role is "ok" and its rewards
\* are computed with its own claim.
C4_FirstWinPendingSecondLossOk ==
    \A p \in Players, q \in Players :
        (SubmittedInOrder(p, q) /\ sub[p].claimedWin /\ ~sub[q].claimedWin)
            => /\ sub[p].consensusResult = "pending"
               /\ ~sub[p].rewardedWon
               /\ sub[q].consensusResult = "ok"
               /\ sub[q].settled => (sub[q].rewardedWon = sub[q].claimedWin)

C4_Witness ==
    /\ SubmittedInOrder("A", "B")
    /\ sub["A"].claimedWin /\ ~sub["B"].claimedWin
    /\ sub["A"].settled /\ sub["B"].settled

C6_WinOnlyForOk ==
    [][\A p \in Players :
          (pc[p] = "settle" /\ SubmitReturns(p) /\ resp'[p].err = "")
              => resp'[p].payload.xp_granted =
                    MatchXP([Won |-> sub[p].claimedWin /\ sub[p].consensusResult = "ok"],
                            sub[p].opponentID = "")]_vars

C6_Witness ==
    \E p \in Players :
        /\ sub[p].settled
        /\ sub[p].claimedWin
        /\ sub[p].consensusResult \in {"pending", "conflict"}
        /\ resp[p].rpc = "submit" /\ resp[p].err = ""
        /\ resp[p].payload.xp_granted = LossXP

\* C7: once a player's result record for a match is stored, a later write to
\* it keeps the claimed outcome, score and submission time, and the resolved
\* flag never goes back from true to false.
C7_RecordWrittenOnce ==
    [][\A p \in Players, m \in MatchIDs :
          LET k == ResultKey(m, p) IN
          (k \in DOMAIN storage /\ k \in DOMAIN storage')
              => /\ storage'[k].value.ClaimedWin = storage[k].value.ClaimedWin
                 /\ storage'[k].value.Score = storage[k].value.Score
                 /\ storage'[k].value.SubmittedAt = storage[k].value.SubmittedAt
                 /\ storage[k].value.Resolved => storage'[k].value.Resolved]_vars

\* C8: no step of p's submission creates, changes or deletes a result record
\* of another player.
C8_OnlyOwnRecord ==
    [][\A p \in Players :
          (pc'[p] # pc[p] \/ calls'[p] # calls[p])
              => \A k \in DOMAIN storage \cup DOMAIN storage' :
                    (k[1] = storageCollectionResults /\ k[3] # p)
                        => /\ k \in DOMAIN storage
                           /\ k \in DOMAIN storage'
                           /\ storage'[k] = storage[k]]_vars

\* p has marked its record resolved while the opponent's record is stored.
C8_Witness ==
    \E p \in Players :
        /\ sub[p].consensusResult = "ok"
        /\ sub[p].opponentID # ""
        /\ ResultKey(sub[p].req.MatchID, p) \in DOMAIN storage
        /\ storage[ResultKey(sub[p].req.MatchID, p)].value.Resolved
        /\ ResultKey(sub[p].req.MatchID, sub[p].opponentID) \in DOMAIN storage
        /\ ~storage[ResultKey(sub[p].req.MatchID, sub[p].opponentID)].value.Resolved

\* C9: within a submission the opponent's record is read only after the own
\* claim has been written successfully; when that write fails the
\* opponent's record is not read and the call returns the write error.
C9_WriteBeforeRead ==
    [][\A p \in Players :
          /\ sub'[p].opponentRead # "none" => sub'[p].ownWrite = "ok"
          /\ sub'[p].ownWrite = "failed" => sub'[p].opponentRead = "none"
          /\ (pc[p] = "writeOwn" /\ sub'[p].ownWrite = "failed")
                => /\ pc'[p] = "idle"
                   /\ resp'[p] = SubmitResp(sub[p].req.MatchID, ErrWriteClaim, NoPayload)]_vars

C9_Witness ==
    \E p \in Players :
        /\ sub[p].ownWrite = "failed"
        /\ sub[p].opponentRead = "none"
        /\ resp[p].err = ErrWriteClaim

SubmitValidates(p) ==
    /\ pc[p] = "idle"
    /\ calls'[p] # calls[p]
    /\ ~NotifyReturns(p)

\* The match id the validating call of p was made with.
SubmittedID(p) == IF pc'[p] = "idle" THEN resp'[p].matchID ELSE sub'[p].req.MatchID

\* C11: a submission goes on to consensus and reward settlement only if, at
\* validation time, the player has an ActiveMatch record whose match id is
\* the submitted one; with no record, or a record of another match, the
\* call is rejected and neither the object store nor the ledger changes.
C11_OnlyActiveMatchProceeds ==
    [][\A p \in Players :
          SubmitValidates(p)
              => LET objects == StorageRead(storage, ActiveMatchKey(p))
                     matches == /\ Len(objects) > 0
                                /\ objects[1].value.MatchID = SubmittedID(p)
                 IN  /\ pc'[p] # "idle" => matches
                     /\ ~matches => /\ pc'[p] = "idle"
                                    /\ resp'[p].rpc = "submit"
                                    /\ resp'[p].err # ""
                                    /\ storage' = storage
                                    /\ wallet' = wallet]_vars

\* A submission for one match was rejected while the record of another
\* match was the player's active one.
C11_Witness ==
    /\ resp[LifecyclePlayer].rpc = "submit"
    /\ resp[LifecyclePlayer].err = ErrMatchIDMismatch
    /\ pc[LifecyclePlayer] = "idle"
    /\ ActiveMatchKey(LifecyclePlayer) \in DOMAIN storage
    /\ storage[ActiveMatchKey(LifecyclePlayer)].value.MatchID # resp[LifecyclePlayer].matchID

\* The validating call of p is for the match of p's ActiveMatch record, and
\* more than the maximum duration has passed since the recorded start.
SubmitsExpired(p) ==
    /\ SubmitValidates(p)
    /\ ActiveMatchKey(p) \in DOMAIN storage
    /\ storage[ActiveMatchKey(p)].value.MatchID = SubmittedID(p)
    /\ now - storage[ActiveMatchKey(p)].value.StartTime > maxMatchDurationMs

\* The call is rejected and grants nothing.
RejectedWithoutReward(p) ==
    /\ pc'[p] = "idle"
    /\ resp'[p].rpc = "submit"
    /\ resp'[p].err # ""
    /\ resp'[p].payload = NoPayload
    /\ wallet' = wallet
    /\ \A k \in DOMAIN storage' : k \in DOMAIN storage /\ storage'[k] = storage[k]

\* C12 as stated: a result submitted when more than the maximum duration
\* has passed since the recorded start is rejected with no reward, and the
\* ActiveMatch record is deleted by that call.
C12_ExpiredAlwaysDeleted ==
    [][\A p \in Players :
          SubmitsExpired(p)
              => /\ RejectedWithoutReward(p)
                 /\ ActiveMatchKey(p) \notin DOMAIN storage']_vars

\* C12 (amended): such a submission is always rejected with no reward and
\* no write. When it is not turned away before the duration test (by the
\* rate limit or a failed read), it is rejected as stale and asks the store
\* to delete the ActiveMatch record: the record is gone when the delete
\* succeeds, and the store is unchanged when the delete fails.
C12_ExpiredRejectedAndCleared ==
    [][\A p \in Players :
          SubmitsExpired(p)
              => /\ RejectedWithoutReward(p)
                 /\ \A request \in Requests, hf \in BOOLEAN, af \in BOOLEAN, df \in BOOLEAN :
                       ( /\ SubmitBegin(p, request, hf, af, df)
                         /\ ~hf /\ ~af
                         /\ checkMatchRateLimit(storage, p, now, FALSE) = "" )
                           => /\ resp'[p].err = ErrStale
                              /\ df => storage' = storage
                              /\ ~df => storage' = StorageDelete(storage, ActiveMatchKey(p))
                              /\ ~df => ActiveMatchKey(p) \notin DOMAIN storage']_vars

\* A submission was rejected as stale and the record is gone.
C12_Witness ==
    /\ resp[LifecyclePlayer].rpc = "submit"
    /\ resp[LifecyclePlayer].err = ErrStale
    /\ pc[LifecyclePlayer] = "idle"
    /\ ActiveMatchKey(LifecyclePlayer) \notin DOMAIN storage
    /\ now > maxMatchDurationMs

\* C13: a result submitted less than 10 seconds after the recorded start is
\* rejected: no consensus record is written, no reward is granted and the
\* ActiveMatch record is unchanged (the store and the ledger are as before).
\* The reason given is the too-short duration, unless a read failed or the
\* rate limit turned the call away first.
C13_TooShortRejectedUntouched ==
    [][\A p \in Players :
          ( /\ SubmitValidates(p)
            /\ ActiveMatchKey(p) \in DOMAIN storage
            /\ storage[ActiveMatchKey(p)].value.MatchID = SubmittedID(p)
            /\ now - storage[ActiveMatchKey(p)].value.StartTime < minMatchDurationMs )
              => LET limited == checkMatchRateLimit(storage, p, now, FALSE) IN
                 /\ RejectedWithoutReward(p)
                 /\ storage' = storage
                 /\ resp'[p].err \in {ErrCouldNotReadStorage,
                                      IF limited # "" THEN limited ELSE ErrTooShort}]_vars

\* A submission made after the start, but before the minimum duration, was
\* rejected as too short; the record is still there and no claim is stored.
C13_Witness ==
    LET p == LifecyclePlayer IN
    /\ resp[p].rpc = "submit"
    /\ resp[p].err = ErrTooShort
    /\ pc[p] = "idle"
    /\ ActiveMatchKey(p) \in DOMAIN storage
    /\ storage[ActiveMatchKey(p)].value.MatchID = resp[p].matchID
    /\ now > storage[ActiveMatchKey(p)].value.StartTime
    /\ ResultKey(resp[p].matchID, p) \notin DOMAIN storage

\* A submission made exactly at the minimum duration went on to settlement.
C13_WitnessAtFloor ==
    LET p == LifecyclePlayer IN
    /\ pc[p] \in {"writeOwn", "settle"}
    /\ ActiveMatchKey(p) \in DOMAIN storage
    /\ now - storage[ActiveMatchKey(p)].value.StartTime = minMatchDurationMs

\* The keys of the object store whose record differs across the step.
ChangedKeys ==
    { k \in DOMAIN storage \cup DOMAIN storage' :
        \/ k \notin DOMAIN storage
        \/ k \notin DOMAIN storage'
        \/ storage[k] # storage'[k] }

\* The batch that the settling call of p hands to the commit.
SettleBatch(p, rnd, fails) ==
    processMatchRewards(storage, wallet, p,
        [sub[p].req EXCEPT !.Won = ActualWon(sub[p].consensusResult, sub[p].req.Won)],
        sub[p].opponentID = "", now, rnd, fails).pending

BatchKeysOf(pending) ==
    { pending.StorageWrites[i].key : i \in 1..Len(pending.StorageWrites) }

\* The step belongs to a submit-match-result call of p.
SubmitStep(p) == SubmitValidates(p) \/ pc'[p] # pc[p]

\* C14: during a submission, the object store and the ledger change only in
\* the step that commits the batch of the settlement, and then only in the
\* records of that batch; the one exception is the deletion of the player's
\* ActiveMatch record.
C14_OnlyCommitMutates ==
    [][\A p \in Players :
          (SubmitStep(p) /\ (ChangedKeys \ {ActiveMatchKey(p)} # {} \/ wallet' # wallet))
              => /\ pc[p] = "settle"
                 /\ resp'[p].err = ""
                 /\ \E rnd \in 0..LootboxRandMax, fails \in SettleFailures :
                       /\ Settle(p, rnd, fails)
                       /\ ChangedKeys \subseteq
                            BatchKeysOf(SettleBatch(p, rnd, fails)) \cup {ActiveMatchKey(p)}]_vars

\* The stored per-day match count of p (0 when there is no record).
DailyCount(st, p) ==
    IF DailyKey(p) \in DOMAIN st THEN st[DailyKey(p)].value.Count ELSE 0

\* C15: the per-day match counter goes up by one for a settled match and
\* never by more: a submission that settles raises it by at most one, and a
\* submission that fails (its settlement commit failed) leaves it as it
\* was, so that the retry counts the match once.
C15_CountedOncePerSettledMatch ==
    [][\A p \in Players :
          (pc[p] = "settle" /\ pc'[p] = "idle")
              => IF resp'[p].err = ""
                 THEN DailyCount(storage', p) <= DailyCount(storage, p) + 1
                 ELSE DailyCount(storage', p) = DailyCount(storage, p)]_vars

\* C16: a submission rejected for an unknown equipped pet or class id leaves
\* the durable state as it was before the call; in particular, when no
\* MatchResultRecord of the player for the match was stored before the
\* call, none is stored after it.
C16_InvalidItemWritesNothing ==
    \A p \in Players :
        ( /\ pc[p] = "idle"
          /\ resp[p].rpc = "submit"
          /\ resp[p].err = ErrInvalidItemID
          /\ sub[p].req.MatchID = resp[p].matchID
          /\ sub[p].fresh )
            => ResultKey(resp[p].matchID, p) \notin DOMAIN storage

\* C17: when the ledger read or the progression read that the settlement
\* needs fails, the submission returns a failure and commits nothing: the
\* ledger and the match history are as before.
C17_FailedReadFailsSubmission ==
    [][\A p \in Players :
          (pc[p] = "settle" /\ pc'[p] = "idle")
              => \A rnd \in 0..LootboxRandMax, fails \in SettleFailures :
                    (Settle(p, rnd, fails) /\ (fails.walletRead \/ fails.progRead))
                        => /\ resp'[p].err # ""
                           /\ wallet' = wallet
                           /\ StorageRead(storage', HistoryKey(p))
                                = StorageRead(storage, HistoryKey(p))]_vars

\* What the settling call of p commits and answers, whatever the cleanup does.
SettleOutcome(p, rnd, fails) ==
    processMatchRewards(storage, wallet, p,
        [sub[p].req EXCEPT !.Won = ActualWon(sub[p].consensusResult, sub[p].req.Won)],
        sub[p].opponentID = "", now, rnd, fails)

\* The commit succeeds and the deletion of the ActiveMatch record fails.
CleanupFailures ==
    [walletRead : BOOLEAN, dailyWrite : BOOLEAN, progRead : BOOLEAN,
     commit : {FALSE}, delete : {TRUE}]

\* C18: when the deletion of the ActiveMatch record fails after a
\* successful settlement commit, the submission still returns the success
\* response, and the store and the ledger hold exactly what was committed
\* (with the ActiveMatch record still in place).
C18_DeleteFailureKeepsSuccess ==
    [][\A p \in Players :
          (pc[p] = "settle" /\ pc'[p] = "idle" /\ ActiveMatchKey(p) \in DOMAIN storage')
              => \A rnd \in 0..LootboxRandMax, fails \in CleanupFailures :
                    ( /\ ValidateItemExists(GamePets, sub[p].req.EquippedPetID)
                      /\ ValidateItemExists(GameClasses, sub[p].req.EquippedClassID)
                      /\ Settle(p, rnd, fails) )
                        => LET done == SettleOutcome(p, rnd, fails) IN
                           ~done.err
                             => /\ resp'[p].rpc = "submit"
                                /\ resp'[p].err = ""
                                /\ resp'[p].payload = done.result
                                /\ wallet' = done.wal
                                /\ storage' = done.st
                                /\ StorageRead(storage', ActiveMatchKey(p))
                                     = StorageRead(storage, ActiveMatchKey(p))
                                /\ StorageRead(storage', HistoryKey(p)) # <<>>]_vars

\* A submission has just settled with a reward in the ledger, and the
\* ActiveMatch record of the settled match is still stored.
C18_Witness ==
    LET p == LifecyclePlayer IN
    /\ pc[p] = "idle"
    /\ resp[p].rpc = "submit"
    /\ resp[p].err = ""
    /\ sub[p].settled
    /\ ActiveMatchKey(p) \in DOMAIN storage
    /\ storage[ActiveMatchKey(p)].value.MatchID = resp[p].matchID
    /\ HistoryKey(p) \in DOMAIN storage
    /\ storage[HistoryKey(p)].value.LastMatchTime = now
    /\ wallet[p][walletKeyRoundTokens] > 0

\* The step is a settlement of p that returns success.
Settles(p) ==
    /\ pc[p] = "settle"
    /\ pc'[p] = "idle"
    /\ resp'[p].err = ""

\* The tokens the settling submission of p earns.
TokensEarned(p) ==
    computeTokensEarned(
        [sub[p].req EXCEPT !.Won = ActualWon(sub[p].consensusResult, sub[p].req.Won)],
        sub[p].opponentID = "")

\* The settlement of p made a lootbox: the response names it, its record is
\* new in the store.
ExchangeFired(p) ==
    /\ Len(resp'[p].payload.lootboxes) = 1
    /\ LootboxKey(p, resp'[p].payload.lootboxes[1]) \in DOMAIN storage' \ DOMAIN storage

\* C19: with the ledger read, a settlement makes a loot exchange exactly
\* when the prior token balance plus the tokens earned reaches the exchange
\* threshold and at least one drop slot is left; otherwise no lootbox is
\* made and no drop slot is used.
C19_ExchangeExactlyAtThresholdWithSlot ==
    [][\A p \in Players :
          Settles(p)
              => LET due == /\ wallet[p][walletKeyRoundTokens] + TokensEarned(p)
                                >= TokenExchangeThresh
                            /\ wallet[p][walletKeyDropsLeft] >= 1
                 IN  /\ due <=> ExchangeFired(p)
                     /\ ~due => /\ resp'[p].payload.lootboxes = <<>>
                                /\ wallet'[p][walletKeyDropsLeft] = wallet[p][walletKeyDropsLeft]
                                /\ \A k \in DOMAIN storage' \ DOMAIN storage :
                                        k[1] # storageCollectionLootboxes]_vars

\* A settlement has just exchanged tokens for a lootbox.
C19_Witness ==
    LET p == LifecyclePlayer IN
    /\ pc[p] = "idle"
    /\ resp[p].rpc = "submit"
    /\ resp[p].err = ""
    /\ Len(resp[p].payload.lootboxes) = 1
    /\ LootboxKey(p, resp[p].payload.lootboxes[1]) \in DOMAIN storage
    /\ wallet[p][walletKeyDropsLeft] = InitDrops - 1

\* A settlement has just reached the threshold with no drop slot left, and
\* made no lootbox.
C19_WitnessNoSlot ==
    LET p == LifecyclePlayer IN
    /\ pc[p] = "idle"
    /\ resp[p].rpc = "submit"
    /\ resp[p].err = ""
    /\ resp[p].payload.lootboxes = <<>>
    /\ wallet[p][walletKeyRoundTokens] >= TokenExchangeThresh
    /\ wallet[p][walletKeyDropsLeft] = 0

\* A settlement has just stayed below the threshold with a drop slot left.
C19_WitnessBelow ==
    LET p == LifecyclePlayer IN
    /\ pc[p] = "idle"
    /\ resp[p].rpc = "submit"
    /\ resp[p].err = ""
    /\ resp[p].payload.lootboxes = <<>>
    /\ wallet[p][walletKeyRoundTokens] \in 1..(TokenExchangeThresh - 1)
    /\ wallet[p][walletKeyDropsLeft] >= 1

\* C20: when an exchange fires, the committed ledger has one drop slot less
\* than before and a token balance of (prior balance + tokens earned) minus
\* the exchange threshold; no other balance changes.
C20_ExchangeTakesOneSlotAndThreshold ==
    [][\A p \in Players :
          (Settles(p) /\ ExchangeFired(p))
              => /\ wallet'[p][walletKeyDropsLeft] = wallet[p][walletKeyDropsLeft] - 1
                 /\ wallet'[p][walletKeyRoundTokens] =
                        (wallet[p][walletKeyRoundTokens] + TokensEarned(p)) - TokenExchangeThresh
                 /\ wallet'[p][walletKeyRoundTokens] >= 0
                 /\ \A q \in Players \ {p} : wallet'[q] = wallet[q]]_vars

\* An exchange has just fired and carried tokens beyond the threshold over.
C20_Witness ==
    LET p == LifecyclePlayer IN
    /\ pc[p] = "idle"
    /\ resp[p].rpc = "submit"
    /\ resp[p].err = ""
    /\ Len(resp[p].payload.lootboxes) = 1
    /\ wallet[p][walletKeyDropsLeft] = InitDrops - 1
    /\ wallet[p][walletKeyRoundTokens] > 0
    /\ wallet[p][walletKeyRoundTokens] = resp[p].payload.round_tokens - TokenExchangeThresh

\* The lootbox writes and the drop-slot changesets of a batch.
LootboxWrites(pending) ==
    { i \in 1..Len(pending.StorageWrites) :
        pending.StorageWrites[i].key[1] = storageCollectionLootboxes }

SlotChangesets(pending) ==
    { i \in 1..Len(pending.WalletUpdates) :
        walletKeyDropsLeft \in DOMAIN pending.WalletUpdates[i].changeset }

\* The commit of the settlement does not fail in the store's infrastructure.
CommittingFailures ==
    [walletRead : BOOLEAN, dailyWrite : BOOLEAN, progRead : BOOLEAN,
     commit : {FALSE}, delete : BOOLEAN]

\* The exchange condition as the ledger stands before the settling step.
ExchangeDue(p) ==
    /\ wallet[p][walletKeyRoundTokens] + TokensEarned(p) >= TokenExchangeThresh
    /\ wallet[p][walletKeyDropsLeft] >= 1

\* C21: the batch committed by a settlement holds exactly one lootbox write,
\* together with one changeset taking one drop slot, when an exchange
\* fires, and neither of them when no exchange fires.
C21_OneLootboxWriteIffExchange ==
    [][\A p \in Players :
          Settles(p)
              => \A rnd \in 0..LootboxRandMax, fails \in CommittingFailures :
                    Settle(p, rnd, fails)
                        => LET pending == SettleBatch(p, rnd, fails)
                               slots == SlotChangesets(pending)
                           IN  IF ExchangeFired(p)
                               THEN /\ Cardinality(LootboxWrites(pending)) = 1
                                    /\ Cardinality(slots) = 1
                                    /\ \A i \in slots :
                                          pending.WalletUpdates[i].changeset[walletKeyDropsLeft] = -1
                               ELSE /\ LootboxWrites(pending) = {}
                                    /\ slots = {}
                                    /\ ~ExchangeDue(p)]_vars

\* A settlement has just committed a batch with a lootbox, and the lootbox
\* it names is stored unopened.
C21_Witness ==
    LET p == LifecyclePlayer IN
    /\ pc[p] = "idle"
    /\ resp[p].rpc = "submit"
    /\ resp[p].err = ""
    /\ Len(resp[p].payload.lootboxes) = 1
    /\ LootboxKey(p, resp[p].payload.lootboxes[1]) \in DOMAIN storage
    /\ ~storage[LootboxKey(p, resp[p].payload.lootboxes[1])].value.Opened
    /\ resp[p].payload.drops_remaining = wallet[p][walletKeyDropsLeft]

\* C22: a match settled while the player has no drop slot left discards the
\* tokens it earned: the token balance after the settlement is the balance
\* before it.
C22_NoSlotDiscardsTokens ==
    [][\A p \in Players :
          (Settles(p) /\ wallet[p][walletKeyDropsLeft] <= 0)
              => wallet'[p][walletKeyRoundTokens] = wallet[p][walletKeyRoundTokens]]_vars

C24_TokensNeverAboveCaps ==
    batch.state = "done"
        => /\ batch.earned <= TokenRoundCap * TokensPerRoundWin
           /\ batch.earned <= maxRoundsPerMatch * TokensPerRoundWin

\* The tokens of a two-player round list that claims 50 wins in round 1
\* have been computed: the clean sweep of the capped rounds.
C24_Witness ==
    /\ batch.state = "done"
    /\ Len(batch.req.Rounds) = ClaimedWins
    /\ ~batch.isSolo
    /\ batch.earned = TokenRoundCap * TokensPerRoundWin

\* The tokens of aggregate counts claiming 50 wins with no round list have
\* been computed.
C24_WitnessCounts ==
    /\ batch.state = "done"
    /\ batch.req.Rounds = <<>>
    /\ batch.req.RoundsWon = ClaimedWins
    /\ batch.req.RoundsLost = -1
    /\ batch.earned = TokenRoundCap * TokensPerRoundWin

----------------------------------------------------------------------------
(* Levels, experience and level-up rewards *)

\* The leveled items of the player under grant, each with its curve.
LeveledItems ==
    {[key |-> PlayerProgKey(LifecyclePlayer), tree |-> PlayerTree, item |-> CategoryPlayer],
     [key |-> ItemProgKey(LifecyclePlayer, ProgressionKeyPet, DefaultPetID),
      tree |-> PetTree, item |-> storageKeyPet],
     [key |-> ItemProgKey(LifecyclePlayer, ProgressionKeyClass, DefaultClassID),
      tree |-> PetTree, item |-> storageKeyClass]}

\* C25: over any sequence of experience grants to the player, a pet or a
\* class, the stored level never goes down and never exceeds the maximum
\* level of the item's curve.
C25_LevelNeverDropsNorExceedsMax ==
    [][\A it \in LeveledItems :
          it.key \in DOMAIN storage' =>
             /\ storage'[it.key].value.Level >= StoredLevel(storage, it.key)
             /\ storage'[it.key].value.Level <= it.tree.MaxLevel]_vars

\* The player and the pet both stand at the top of their curves, and a
\* further grant to the pet has just been committed there.
C25_Witness ==
    /\ StoredLevel(storage, PlayerProgKey(LifecyclePlayer)) = PlayerTree.MaxLevel
    /\ StoredLevel(storage, ItemProgKey(LifecyclePlayer, ProgressionKeyPet, DefaultPetID))
          = PetTree.MaxLevel
    /\ batch.item = storageKeyPet
    /\ batch.oldLevel = PetTree.MaxLevel
    /\ ~batch.err
    /\ Len(batch.pending.StorageWrites) > 0

\* C26: the stored cumulative experience of a leveled item, the player's own
\* progression included, never exceeds the threshold of the maximum level
\* of its curve.
C26_ExperienceNeverAboveLastThreshold ==
    \A it \in LeveledItems :
        it.key \in DOMAIN storage =>
            storage[it.key].value.Exp <= LevelThresholds(it.tree)[it.tree.MaxLevel]

\* The curve of the item the last grant went to.
GrantTree == IF batch.item = CategoryPlayer THEN PlayerTree ELSE PetTree

\* The prepared batch carries the ledger update of the bundle of level lvl.
CarriesBundle(pending, userID, tree, lvl) ==
    \E i \in DOMAIN pending.WalletUpdates :
        pending.WalletUpdates[i] = [user |-> userID, changeset |-> tree.Rewards[lvl]]

\* C27: a grant that raises the level from L to L' prepares the reward
\* bundle of every level in L+1..L' that has one.
C27_EveryGainedLevelBundlePrepared ==
    (batch.state = "xp" /\ batch.resultLevel > batch.oldLevel) =>
        \A lvl \in (batch.oldLevel + 1)..batch.resultLevel :
            lvl \in DOMAIN GrantTree.Rewards =>
                CarriesBundle(batch.pending, LifecyclePlayer, GrantTree, lvl)

----------------------------------------------------------------------------
(* Merging batches *)

RECURSIVE NetDelta(_, _, _)
\* The net delta a list of ledger updates carries for one player and currency.
NetDelta(updates, userID, currency) ==
    IF updates = <<>> THEN 0
    ELSE LET u == Head(updates) IN
         (IF u.user = userID /\ currency \in DOMAIN u.changeset
          THEN u.changeset[currency] ELSE 0)
         + NetDelta(Tail(updates), userID, currency)

\* C28: after a.Merge(b) the net ledger delta a carries for every player and
\* currency is the sum of what a and b carried before, and a's object writes
\* are its former writes followed by b's, each in its original order.
C28_MergeAddsDeltasAndAppendsWrites ==
    batch.state = "merged" =>
        /\ \A p \in Players, c \in Currencies :
              NetDelta(batch.a.WalletUpdates, p, c)
                = NetDelta(batch.a0.WalletUpdates, p, c) + NetDelta(batch.b.WalletUpdates, p, c)
        /\ Len(batch.a.StorageWrites)
              = Len(batch.a0.StorageWrites) + Len(batch.b.StorageWrites)
        /\ \A i \in DOMAIN batch.a0.StorageWrites :
              batch.a.StorageWrites[i] = batch.a0.StorageWrites[i]
        /\ \A j \in DOMAIN batch.b.StorageWrites :
              batch.a.StorageWrites[Len(batch.a0.StorageWrites) + j] = batch.b.StorageWrites[j]

\* Both batches carry two different writes and a delta on the same key.
C28_Witness ==
    /\ batch.state = "merged"
    /\ Len(batch.a0.StorageWrites) = 2
    /\ Len(batch.b.StorageWrites) = 2
    /\ batch.a0.StorageWrites[1] # batch.a0.StorageWrites[2]
    /\ batch.b.StorageWrites[1] # batch.b.StorageWrites[2]
    /\ batch.a0.StorageWrites # batch.b.StorageWrites
    /\ NetDelta(batch.a0.WalletUpdates, "A", walletKeyRoundTokens) = -TokenExchangeThresh
    /\ NetDelta(batch.b.WalletUpdates, "A", walletKeyRoundTokens) = TokensPerRoundWin
    /\ NetDelta(batch.a.WalletUpdates, "A", walletKeyRoundTokens)
          = TokensPerRoundWin - TokenExchangeThresh

----------------------------------------------------------------------------
(* Opening a loot container *)

GoldOf(wal) == wal[LifecyclePlayer][walletKeyGold]
ContainerOpened(st) == st[LootboxKey(LifecyclePlayer, StoredLootbox.lootbox.ID)].value.Opened

\* Request r completes in this step.
Completes(r) == batch.reqs[r].pc # "done" /\ batch'.reqs[r].pc = "done"

\* C29: a container is opened exactly once. Over any interleaving of open
\* requests on it at most one commits: the committing step finds it unopened,
\* sets the opened flag and credits its own rewards; every other request
\* ends with an error and changes neither the ledger nor the store.
C29_ContainerOpenedAtMostOnce ==
    [][/\ batch'.opens <= 1
       /\ \A r \in Openers :
            Completes(r) =>
               IF batch'.reqs[r].err = ""
               THEN /\ ~ContainerOpened(storage)
                    /\ ContainerOpened(storage')
                    /\ batch.opens = 0
                    /\ GoldOf(wallet') = GoldOf(wallet)
                          + NetDelta(batch.reqs[r].pending.WalletUpdates, LifecyclePlayer,
                                     walletKeyGold)
               ELSE wallet' = wallet /\ storage' = storage]_vars

\* Both requests read the unopened container and prepared rewards; one has
\* committed them, the other has been turned down at its commit.
C29_Witness ==
    /\ batch.state = "open"
    /\ batch.opens = 1
    /\ ContainerOpened(storage)
    /\ GoldOf(wallet) = LootboxGoldMax
    /\ \E r \in Openers, q \in Openers :
          /\ batch.reqs[r].pc = "done" /\ batch.reqs[r].err = ""
          /\ batch.reqs[q].pc = "done" /\ batch.reqs[q].err = ErrLootboxOpenFailed
          /\ Len(batch.reqs[q].pending.WalletUpdates) = 1

----------------------------------------------------------------------------
(* The duration ceiling by mode *)

\* p submits a result for its recorded match exactly elapsed ms after the
\* recorded start.
ValidatesAtElapsed(p, elapsed) ==
    /\ SubmitValidates(p)
    /\ ActiveMatchKey(p) \in DOMAIN storage
    /\ storage[ActiveMatchKey(p)].value.MatchID = SubmittedID(p)
    /\ now - storage[ActiveMatchKey(p)].value.StartTime = elapsed

\* C30: the ceiling of a two-player match is strictly below that of a solo
\* match. A solo submission passes up to maxMatchDurationMs after the start,
\* so a two-player submission made exactly then is turned down.
C30_TwoPlayerRejectedAtSoloCeiling ==
    [][\A p \in Players :
          ( /\ ValidatesAtElapsed(p, maxMatchDurationMs)
            /\ storage[ActiveMatchKey(p)].value.OpponentID # "" )
              => /\ pc'[p] = "idle"
                 /\ resp'[p].err # ""]_vars

----------------------------------------------------------------------------
(* Winners of a two-player match *)

\* The first settlement of p for match m granted the experience of a win.
RewardedAsWinner(p, m) ==
    /\ first[p][m] # NoResp
    /\ first[p][m].payload.xp_granted = MatchXP([Won |-> TRUE], FALSE)

\* C31: in a two-player match at most one of the two players is rewarded as
\* the winner, whatever the order of the two players' submissions.
C31_AtMostOneWinner ==
    \A m \in MatchIDs : ~(RewardedAsWinner("A", m) /\ RewardedAsWinner("B", m))

\* Two committed settlements of the log whose requests had both passed
\* their checks before either of them committed.
Overlapping(i, j) ==
    /\ i < j
    /\ batch.log[j].begun < i
    /\ batch.log[i].matchID = batch.log[j].matchID

\* C32: of two submissions of one player for the same match that both pass
\* the rate-limit and active-match checks before either commits, at most
\* one commits a settlement.
C32_ConcurrentSubmissionsSettleOnce ==
    batch.state = "race" =>
        \A i, j \in 1..Len(batch.log) : ~Overlapping(i, j)

\* C33: of two requests that prepare a progression write for the same record
\* from the same stored state, the state right after the record was created
\* included, at most one commits, so no committed experience is overwritten.
C33_SameStateCommitsOnce ==
    batch.state = "race" =>
        \A i, j \in 1..Len(batch.log) :
            i < j => batch.log[i].base # batch.log[j].base

\* Request r commits in this step an exchange decided from a wallet read
\* that has gone stale: no drop slot is left now.
CommitsStaleExchange(r) ==
    /\ batch.reqs[r].pc = "commit"
    /\ batch'.reqs[r].pc = "idle"
    /\ RaceExchange(batch.reqs[r]).willExchange
    /\ wallet[RacePlayer][walletKeyDropsLeft] < 1

C35_TokenBalanceWithinThreshold ==
    batch.state = "race" =>
        /\ wallet[RacePlayer][walletKeyRoundTokens] >= 0
        /\ wallet[RacePlayer][walletKeyRoundTokens] <= TokenExchangeThresh

\* C36: the match-history timestamps of any two committed settlements of
\* the same player are at least the rate-limit interval apart.
C36_SettlementsRateLimitApart ==
    batch.state = "race" =>
        \A i, j \in 1..Len(batch.log) :
            i < j =>
                \/ batch.log[j].t - batch.log[i].t >= minRateLimitMs
                \/ batch.log[i].t - batch.log[j].t >= minRateLimitMs

\* The settlement commit of player p's submission fails in this step.
CommitFails(p) ==
    /\ pc[p] = "settle"
    /\ pc'[p] = "idle"
    /\ resp'[p].err = ErrCommit

\* C37: when the settlement commit fails the submission returns an error,
\* the player's ActiveMatch record is not deleted and the wallet, the
\* progression record and the match-history record are unchanged.
C37_FailedCommitChangesNothing ==
    [][ \A p \in Players :
            CommitFails(p) =>
                /\ Len(StorageRead(storage', ActiveMatchKey(p))) > 0
                /\ StorageRead(storage', ActiveMatchKey(p))
                        = StorageRead(storage, ActiveMatchKey(p))
                /\ wallet' = wallet
                /\ ProgressionOf(storage', p) = ProgressionOf(storage, p)
                /\ StorageRead(storage', HistoryKey(p)) = StorageRead(storage, HistoryKey(p))
      ]_vars

\* C38: a player is never permanently blocked from starting a match: a
\* notify-match-start call with a non-empty match ID made when the player's
\* ActiveMatch record is absent or older than the maximum duration is never
\* turned down because of that record, and once the store takes its write
\* it succeeds and the record is the new match, started at the time of the call.
C38_StaleOrAbsentRecordNeverBlocks ==
    [][\A p \in Players :
          (NotifyReturns(p) /\ resp'[p].matchID # "")
              => \A o \in Players \cup {""}, rf \in BOOLEAN, wf \in BOOLEAN, df \in BOOLEAN :
                    NotifyMatchStart(p, resp'[p].matchID, o, rf, wf, df)
                        => LET k == ActiveMatchKey(p)
                               free == \/ k \notin DOMAIN storage
                                       \/ now - storage[k].value.StartTime > maxMatchDurationMs
                           IN  free =>
                                 /\ resp'[p].err \in {"", ErrCouldNotWriteStorage}
                                 /\ resp'[p].err = ErrCouldNotWriteStorage <=> wf
                                 /\ ~wf => /\ k \in DOMAIN storage'
                                           /\ storage'[k].value =
                                                [MatchID |-> resp'[p].matchID,
                                                 StartTime |-> now, OpponentID |-> o]]_vars

\* A later start went through once the clock had passed the ceiling: the
\* record is the match of a call made more than the maximum duration after
\* the player's first call.
C38_Witness ==
    /\ resp[LifecyclePlayer].rpc = "notify"
    /\ resp[LifecyclePlayer].err = ""
    /\ calls[LifecyclePlayer] >= 2
    /\ ActiveMatchKey(LifecyclePlayer) \in DOMAIN storage
    /\ storage[ActiveMatchKey(LifecyclePlayer)].value.StartTime = now
    /\ now > maxMatchDurationMs

\* C39: the tokens computed for a match are never negative, for every
\* request, the empty round list and arbitrary aggregate counts included.
C39_TokensNeverNegative ==
    batch.state = "done" => batch.earned >= 0

\* The levels of the tree whose cumulative threshold is at most exp.
LevelsReached(tree, exp) ==
    { l \in 1..tree.MaxLevel : LevelThresholds(tree)[l] <= exp }

\* The largest level reached, level 1 when none is.
HighestLevelReached(tree, exp) ==
    IF LevelsReached(tree, exp) = {} THEN 1
    ELSE CHOOSE l \in LevelsReached(tree, exp) :
            \A k \in LevelsReached(tree, exp) : k <= l

\* C40: for a configured level curve and any experience the level lookup
\* returns a level in 1..maxLevel, namely the largest level whose cumulative
\* threshold is at most the experience (level 1 when no threshold is
\* reached), and never a lower level than for a smaller experience.
C40_LevelIsHighestThresholdReached ==
    batch.state = "level" =>
        /\ batch.level \in 1..batch.tree.MaxLevel
        /\ batch.level = HighestLevelReached(batch.tree, batch.exp)
        /\ batch.exp > 0 - LevelMargin
              => CalculateLevel(batch.tree, batch.exp - 1) <= batch.level

====
